---------------------------- MODULE Spec2Model ----------------------------
(***************************************************************************)
(* Trustcart: the fraud-scoring pipeline of app/models/fraud_detector.py   *)
(* with its explanation capability (app/models/llm_reasoner.py) and its    *)
(* validity gate (app/models/product_classifier.py).                       *)
(*                                                                         *)
(* Conventions of the model                                                *)
(*  - money is in whole dollars, ratings are in tenths of a star           *)
(*    (rating 2.5 is 25), risk scores and probabilities are in hundredths  *)
(*    (0.55 is 55), percentiles are in tenths of a percent (100 is 1000).  *)
(*    Every penalty of the code is a multiple of 0.05 and every sum of     *)
(*    them compares with the thresholds as the exact value does.           *)
(*  - a text is a sequence of lower-case words; "keyword in title" is      *)
(*    "the keyword's words occur contiguously in the title".               *)
(*  - a Python dict that may lack a key has a field "keys", the set of     *)
(*    keys present.                                                        *)
(***************************************************************************)
EXTENDS Integers, Sequences, FiniteSets, TLC

VARIABLES
    enabled,      \* LLMFraudExplainer.enabled
    cache,        \* LLMFraudExplainer._cache: cache key -> stored result
    pc,           \* position of analyze_products
    query,        \* the search query of the run
    products,     \* the batch, annotated in place
    to_analyze,   \* products_to_analyze, as indices into products
    price_stats,  \* the price statistics handed to explain_risk
    k,            \* index of the next element of to_analyze
    log,          \* what the run did: explain_risk invocations, cache and client accesses
    unit          \* input and result of one function applied alone (SpecTier, SpecRisk)

vars == <<enabled, cache, pc, query, products, to_analyze, price_stats, k, log, unit>>

pipeline_vars == <<enabled, cache, pc, query, products, to_analyze, price_stats, k, log>>

-----------------------------------------------------------------------------
(* Bounds of the model *)

MaxBatch == 5

MaxCohort == 10

MaxRiskCohort == 5

MaxMalformedBatch == 2

MaxRecBatch == 4

-----------------------------------------------------------------------------
(* Helpers on sequences *)

RECURSIVE SumSeq(_)
SumSeq(s) == IF s = <<>> THEN 0 ELSE Head(s) + SumSeq(Tail(s))

RECURSIVE InOrder(_)
\* the indices of the set S in increasing order: what a list comprehension
\* keeps, in the order of the list it filters
InOrder(S) ==
    IF S = {} THEN <<>>
    ELSE LET m == CHOOSE x \in S : \A y \in S : x <= y
         IN  <<m>> \o InOrder(S \ {m})

Take(s, n) == SubSeq(s, 1, IF Len(s) < n THEN Len(s) ELSE n)

\* how many elements of the list s are at most v, and how many equal it
CountAtMost(s, v) == Cardinality({i \in 1..Len(s) : s[i] <= v})

CountEqual(s, v) == Cardinality({i \in 1..Len(s) : s[i] = v})

\* the j-th smallest element of a non-empty sequence of numbers (sorted(s)[j-1])
Kth(s, j) ==
    CHOOSE v \in {s[i] : i \in 1..Len(s)} :
        /\ Cardinality({i \in 1..Len(s) : s[i] < v}) < j
        /\ Cardinality({i \in 1..Len(s) : s[i] <= v}) >= j

\* twice numpy.median(s): the middle element, or the mean of the two middle ones
Median2(s) ==
    LET n == Len(s) IN
    IF n % 2 = 1 THEN 2 * Kth(s, (n + 1) \div 2)
    ELSE Kth(s, n \div 2) + Kth(s, n \div 2 + 1)

MinOf(s) == Kth(s, 1)

MaxOf(s) == Kth(s, Len(s))

\* `kw in text`: the words of kw occur contiguously in text; a keyword written
\* with a trailing space ('rc ') ends in " " and needs a word after it
Contains(text, kw) ==
    IF kw # <<>> /\ kw[Len(kw)] = " "
    THEN \E i \in 1..(Len(text) - Len(kw) + 1) :
            SubSeq(text, i, i + Len(kw) - 2) = SubSeq(kw, 1, Len(kw) - 1)
    ELSE \E i \in 1..(Len(text) - Len(kw) + 1) : SubSeq(text, i, i + Len(kw) - 1) = kw

-----------------------------------------------------------------------------
(* app/models/product_classifier.py: the validity gate *)

\* len(w) for the words of the model's vocabulary
WordLen(w) ==
    CASE w \in {"rc"} -> 2
      [] w \in {"car", "toy", "12v", "act", "now", "buy"} -> 3
      [] w \in {"kids", "used", "suv", "fast", "gift", "card"} -> 4
      [] w \in {"phone", "sedan"} -> 5
      [] w \in {"ride-on", "costway"} -> 7
      [] w \in {"electric"} -> 8
      [] w \in {"guarantee"} -> 9
      [] OTHER -> 6

RECURSIVE TextLen(_)
\* len(text): the words and the single spaces between them
TextLen(text) ==
    IF text = <<>> THEN 0
    ELSE IF Len(text) = 1 THEN WordLen(text[1])
    ELSE WordLen(Head(text)) + 1 + TextLen(Tail(text))

spam_keywords ==
    { <<"click", "here">>, <<"limited", "time", "offer">>, <<"act", "now">>,
      <<"guarantee">>, <<"100%", "free">>, <<"no", "risk">>,
      <<"buy", "now">>, <<"order", "now">>, <<"call", "now">>,
      <<"amazing", "deal">>, <<"unbelievable", "price">> }

toy_indicators ==
    { <<"toy">>, <<"pretend">>, <<"play", "set">>, <<"playset">>, <<"playhouse">>,
      <<"kids">>, <<"children">>, <<"toddler">>, <<"child">>, <<"baby">>,
      <<"for", "kids">>, <<"for", "children">>, <<"kids'">>,
      <<"leapfrog">>, <<"vtech">>, <<"fisher-price">>, <<"little", "tikes">>,
      <<"step2">>, <<"melissa", "&", "doug">>, <<"kidkraft">>, <<"power", "wheels">>,
      <<"educational", "toy">>, <<"learning", "toy">>, <<"stem", "toy">>,
      <<"miniature">>, <<"mini", "version">>, <<"dollhouse">>, <<"doll", "house">>,
      <<"pretend", "play">>, <<"role", "play">>, <<"imaginative", "play">>,
      <<"play", "kitchen">>, <<"play", "food">>, <<"play", "tools">>,
      <<"wooden", "toy">>, <<"plastic", "toy">> }

\* the categories in the order the dict toy_category_patterns lists them
toy_categories == <<"vehicle", "furniture", "electronics", "appliances">>

toy_category_patterns(category) ==
    CASE category = "vehicle" ->
            { <<"ride", "on">>, <<"ride-on">>, <<"push", "car">>, <<"pedal", "car">>,
              <<"remote", "control">>, <<"rc", " ">>, <<"r/c">>, <<"r.c.">>,
              <<"12v">>, <<"6v">>, <<"24v", "battery">>,
              <<"electric", "car", "for", "kids">>, <<"kids", "electric">>,
              <<"model", "car">>, <<"die-cast">>, <<"diecast">>, <<"scale", "model">>,
              <<"1:24">>, <<"1:18">>, <<"1:12">>, <<"1:64">>, <<"1:43">>,
              <<"hot", "wheels">>, <<"matchbox">>, <<"tonka">> }
      [] category = "furniture" ->
            { <<"play", "kitchen">>, <<"toy", "kitchen">>, <<"kids", "kitchen">>,
              <<"play", "table">>, <<"kids", "table">>, <<"toddler", "table">>,
              <<"play", "chair">>, <<"kids", "chair">>, <<"toddler", "chair">>,
              <<"toy", "storage">>, <<"kids", "storage">>,
              <<"play", "tent">>, <<"kids", "tent">>, <<"play", "house">>,
              <<"doll", "furniture">>, <<"dollhouse", "furniture">>,
              <<"plastic", "furniture">>, <<"foam", "furniture">> }
      [] category = "electronics" ->
            { <<"toy", "laptop">>, <<"kids", "laptop">>, <<"learning", "laptop">>,
              <<"toy", "tablet">>, <<"kids", "tablet">>, <<"learning", "tablet">>,
              <<"toy", "phone">>, <<"kids", "phone">>, <<"play", "phone">>,
              <<"toy", "computer">>, <<"kids", "computer">>,
              <<"electronic", "learning">>, <<"learning", "system">>,
              <<"educational", "tablet">>, <<"kidizoom">> }
      [] OTHER ->
            { <<"toy", "blender">>, <<"play", "blender">>, <<"kids", "blender">>,
              <<"toy", "vacuum">>, <<"play", "vacuum">>, <<"kids", "vacuum">>,
              <<"toy", "microwave">>, <<"play", "microwave">>,
              <<"toy", "washing", "machine">>, <<"play", "washer">>,
              <<"play", "appliance">>, <<"toy", "appliance">> }

digital_indicators ==
    { <<"download">>, <<"digital", "code">>, <<"gift", "card">>,
      <<"e-book">>, <<"ebook">>, <<"software", "license">>,
      <<"digital", "download">>, <<"instant", "download">> }

\* any(keyword in text for keyword in keywords)
AnyIn(keywords, text) == \E kw \in keywords : Contains(text, kw)

\* sum(1 for keyword in keywords if keyword in text)
MatchCount(keywords, text) == Cardinality({kw \in keywords : Contains(text, kw)})

_is_searching_for_toys(q) ==
    AnyIn({<<"toy">>, <<"toys">>, <<"kids">>, <<"children">>, <<"toddler">>, <<"baby">>}, q)

_query_matches_category(q, category) ==
    LET keywords ==
            CASE category = "vehicle" ->
                    {<<"car">>, <<"cars">>, <<"truck">>, <<"vehicle">>, <<"auto">>,
                     <<"suv">>, <<"van">>}
              [] category = "furniture" ->
                    {<<"furniture">>, <<"table">>, <<"chair">>, <<"desk">>, <<"sofa">>,
                     <<"couch">>, <<"bed">>, <<"kitchen">>}
              [] category = "electronics" ->
                    {<<"laptop">>, <<"computer">>, <<"tablet">>, <<"phone">>,
                     <<"iphone">>, <<"ipad">>}
              [] category = "appliances" ->
                    {<<"blender">>, <<"vacuum">>, <<"microwave">>, <<"washer">>,
                     <<"dryer">>, <<"refrigerator">>}
              [] OTHER -> {}
    IN  AnyIn(keywords, q)

\* _is_toy_product with the category patterns tried before the general indicators
_is_toy_product_category_first(title, price, q) ==
    LET hits == {c \in 1..Len(toy_categories) :
                    /\ _query_matches_category(q, toy_categories[c])
                    /\ MatchCount(toy_category_patterns(toy_categories[c]), title) >= 1}
        first == CHOOSE c \in hits : \A d \in hits : c <= d
    IN
    IF hits # {}
    THEN [is_toy |-> TRUE,
          reason |-> "Product is a toy " \o toy_categories[first]
                        \o ", not a real " \o toy_categories[first]]
    ELSE IF MatchCount(toy_indicators, title) >= 1
    THEN [is_toy |-> TRUE, reason |-> "Product is a toy (contains toy indicators)"]
    ELSE IF /\ AnyIn({<<"car">>, <<"vehicle">>, <<"auto">>}, q)
            /\ 0 < price /\ price < 1000
            /\ AnyIn({<<"electric">>, <<"battery">>, <<"12v">>, <<"6v">>, <<"rechargeable">>}, title)
            /\ AnyIn({<<"aosom">>, <<"costway">>, <<"best", "ride", "on">>, <<"kid", "trax">>}, title)
    THEN [is_toy |-> TRUE, reason |-> "Product is a battery-powered toy car"]
    ELSE IF /\ AnyIn({<<"laptop">>, <<"tablet">>, <<"computer">>}, q)
            /\ 0 < price /\ price < 50
            /\ AnyIn({<<"kids">>, <<"learning">>, <<"educational">>}, title)
    THEN [is_toy |-> TRUE, reason |-> "Product is a toy laptop/tablet"]
    ELSE IF /\ AnyIn({<<"furniture">>, <<"table">>, <<"chair">>, <<"kitchen">>}, q)
            /\ 0 < price /\ price < 100
            /\ AnyIn({<<"plastic">>, <<"play">>, <<"kids">>, <<"little", "tikes">>}, title)
    THEN [is_toy |-> TRUE, reason |-> "Product is toy furniture"]
    ELSE [is_toy |-> FALSE, reason |-> ""]

\* _is_toy_product(title, price, query) -> (is_toy, reason)
_is_toy_product(title, price, q) ==
    LET hits == {c \in 1..Len(toy_categories) :
                    /\ _query_matches_category(q, toy_categories[c])
                    /\ MatchCount(toy_category_patterns(toy_categories[c]), title) >= 1}
        first == CHOOSE c \in hits : \A d \in hits : c <= d
    IN
    IF MatchCount(toy_indicators, title) >= 1
    THEN [is_toy |-> TRUE, reason |-> "Product is a toy (contains toy indicators)"]
    ELSE IF hits # {}
    THEN [is_toy |-> TRUE,
          reason |-> "Product is a toy " \o toy_categories[first]
                        \o ", not a real " \o toy_categories[first]]
    ELSE IF /\ AnyIn({<<"car">>, <<"vehicle">>, <<"auto">>}, q)
            /\ 0 < price /\ price < 1000
            /\ AnyIn({<<"electric">>, <<"battery">>, <<"12v">>, <<"6v">>, <<"rechargeable">>}, title)
            /\ AnyIn({<<"aosom">>, <<"costway">>, <<"best", "ride", "on">>, <<"kid", "trax">>}, title)
    THEN [is_toy |-> TRUE, reason |-> "Product is a battery-powered toy car"]
    ELSE IF /\ AnyIn({<<"laptop">>, <<"tablet">>, <<"computer">>}, q)
            /\ 0 < price /\ price < 50
            /\ AnyIn({<<"kids">>, <<"learning">>, <<"educational">>}, title)
    THEN [is_toy |-> TRUE, reason |-> "Product is a toy laptop/tablet"]
    ELSE IF /\ AnyIn({<<"furniture">>, <<"table">>, <<"chair">>, <<"kitchen">>}, q)
            /\ 0 < price /\ price < 100
            /\ AnyIn({<<"plastic">>, <<"play">>, <<"kids">>, <<"little", "tikes">>}, title)
    THEN [is_toy |-> TRUE, reason |-> "Product is toy furniture"]
    ELSE [is_toy |-> FALSE, reason |-> ""]

\* product.get('title', ''): the title, or '' when the key is absent
TitleOf(product) == IF product.title_type = "absent" THEN <<>> ELSE product.title

\* product.get('price', 0): the price, or 0 when the key is absent
PriceOf(product) == IF product.price_type = "absent" THEN 0 ELSE product.price

\* a verdict of the gate; raised names the exception when the call raises one
Verdict(is_valid, reason) == [is_valid |-> is_valid, reason |-> reason, raised |-> ""]

Raises(exception) == [is_valid |-> FALSE, reason |-> "", raised |-> exception]

\* is_valid_product with the price check placed before the title check
is_valid_product_price_first(product, q) ==
    LET title == TitleOf(product)
        price == PriceOf(product)
    IN
    IF product.title_type \in {"none", "int"} THEN Raises("AttributeError")
    ELSE IF product.price_type \in {"none", "str"} THEN Raises("TypeError")
    ELSE IF price <= 0 THEN Verdict(FALSE, "No valid price found")
    ELSE IF title = <<>> \/ TextLen(title) < 5 THEN Verdict(FALSE, "Invalid or missing title")
    ELSE IF MatchCount(spam_keywords, title) >= 2
    THEN Verdict(FALSE, "Contains multiple spam/scam keywords")
    ELSE IF ~_is_searching_for_toys(q) /\ _is_toy_product(title, price, q).is_toy
    THEN Verdict(FALSE, _is_toy_product(title, price, q).reason)
    ELSE IF MatchCount(digital_indicators, title) >= 1
    THEN Verdict(TRUE, "Warning: Digital product detected")
    ELSE Verdict(TRUE, "Valid product")

\* is_valid_product with the toy detection run whatever the query is
is_valid_product_toy_always(product, q) ==
    LET title == TitleOf(product)
        price == PriceOf(product)
    IN
    IF product.title_type \in {"none", "int"} THEN Raises("AttributeError")
    ELSE IF title = <<>> \/ TextLen(title) < 5 THEN Verdict(FALSE, "Invalid or missing title")
    ELSE IF product.price_type \in {"none", "str"} THEN Raises("TypeError")
    ELSE IF price <= 0 THEN Verdict(FALSE, "No valid price found")
    ELSE IF MatchCount(spam_keywords, title) >= 2
    THEN Verdict(FALSE, "Contains multiple spam/scam keywords")
    ELSE IF _is_toy_product(title, price, q).is_toy
    THEN Verdict(FALSE, _is_toy_product(title, price, q).reason)
    ELSE IF MatchCount(digital_indicators, title) >= 1
    THEN Verdict(TRUE, "Warning: Digital product detected")
    ELSE Verdict(TRUE, "Valid product")

\* is_valid_product(product, query) -> (is_valid, reason). None.lower() and
\* 12345.lower() raise AttributeError; None <= 0 and '$20' <= 0 raise TypeError
is_valid_product(product, q) ==
    LET title == TitleOf(product)
        price == PriceOf(product)
    IN
    IF product.title_type \in {"none", "int"} THEN Raises("AttributeError")
    ELSE IF title = <<>> \/ TextLen(title) < 5 THEN Verdict(FALSE, "Invalid or missing title")
    ELSE IF product.price_type \in {"none", "str"} THEN Raises("TypeError")
    ELSE IF price <= 0 THEN Verdict(FALSE, "No valid price found")
    ELSE IF MatchCount(spam_keywords, title) >= 2
    THEN Verdict(FALSE, "Contains multiple spam/scam keywords")
    ELSE IF ~_is_searching_for_toys(q) /\ _is_toy_product(title, price, q).is_toy
    THEN Verdict(FALSE, _is_toy_product(title, price, q).reason)
    ELSE IF MatchCount(digital_indicators, title) >= 1
    THEN Verdict(TRUE, "Warning: Digital product detected")
    ELSE Verdict(TRUE, "Valid product")

-----------------------------------------------------------------------------
(* app/models/fraud_detector.py: price tier, risk score, risk level *)

\* a risk factor: the text of the f-string and the number it embeds (0 if none)
Factor(text, n) == [text |-> text, n |-> n]

\* round(100 * rank / n, 1), in tenths of a percent (no tie arises for n < 16)
RoundPercentile(rank, n) == (2000 * rank + n) \div (2 * n)

\* _classify_price_tier with the outlier test made against the mean
_classify_price_tier_mean(price, cohort) ==
    LET prices == SelectSeq(cohort, LAMBDA x : x > 0)
        median2 == Median2(prices)
        kept == SelectSeq(prices, LAMBDA x : 2 * x <= median2 * 10)
        filtered_prices == IF Len(kept) < 3 THEN prices ELSE kept
        clean_median2 == Median2(filtered_prices)
        n == Len(filtered_prices)
        rank == CountAtMost(filtered_prices, price)
        tier == IF 100 * rank <= 10 * n THEN "extremely_cheap"
                ELSE IF 100 * rank <= 25 * n THEN "budget"
                ELSE IF 100 * rank <= 75 * n THEN "mid"
                ELSE IF 100 * rank <= 90 * n THEN "premium"
                ELSE "luxury"
    IN
    IF Len(prices) < 3
    THEN [tier |-> "unknown", percentile |-> 500, is_outlier_high |-> FALSE, median2 |-> 0]
    ELSE IF price * Len(prices) > SumSeq(prices) * 10
    THEN [tier |-> "outlier_high", percentile |-> 1000, is_outlier_high |-> TRUE,
          median2 |-> median2]
    ELSE [tier |-> tier, percentile |-> RoundPercentile(rank, n),
          is_outlier_high |-> FALSE, median2 |-> clean_median2]

\* _classify_price_tier that asks for 2 positive prices only
_classify_price_tier_min_two(price, cohort) ==
    LET prices == SelectSeq(cohort, LAMBDA x : x > 0)
        median2 == Median2(prices)
        kept == SelectSeq(prices, LAMBDA x : 2 * x <= median2 * 10)
        filtered_prices == IF Len(kept) < 3 THEN prices ELSE kept
        clean_median2 == Median2(filtered_prices)
        n == Len(filtered_prices)
        rank == CountAtMost(filtered_prices, price)
        tier == IF 100 * rank <= 10 * n THEN "extremely_cheap"
                ELSE IF 100 * rank <= 25 * n THEN "budget"
                ELSE IF 100 * rank <= 75 * n THEN "mid"
                ELSE IF 100 * rank <= 90 * n THEN "premium"
                ELSE "luxury"
    IN
    IF Len(prices) < 2
    THEN [tier |-> "unknown", percentile |-> 500, is_outlier_high |-> FALSE, median2 |-> 0]
    ELSE IF 2 * price > median2 * 10
    THEN [tier |-> "outlier_high", percentile |-> 1000, is_outlier_high |-> TRUE,
          median2 |-> median2]
    ELSE [tier |-> tier, percentile |-> RoundPercentile(rank, n),
          is_outlier_high |-> FALSE, median2 |-> clean_median2]

\* _classify_price_tier with the breakpoints 10, 25, 75 and 90 in the upper tier
_classify_price_tier_strict(price, cohort) ==
    LET prices == SelectSeq(cohort, LAMBDA x : x > 0)
        median2 == Median2(prices)
        kept == SelectSeq(prices, LAMBDA x : 2 * x <= median2 * 10)
        filtered_prices == IF Len(kept) < 3 THEN prices ELSE kept
        clean_median2 == Median2(filtered_prices)
        n == Len(filtered_prices)
        rank == CountAtMost(filtered_prices, price)
        tier == IF 100 * rank < 10 * n THEN "extremely_cheap"
                ELSE IF 100 * rank < 25 * n THEN "budget"
                ELSE IF 100 * rank < 75 * n THEN "mid"
                ELSE IF 100 * rank < 90 * n THEN "premium"
                ELSE "luxury"
    IN
    IF Len(prices) < 3
    THEN [tier |-> "unknown", percentile |-> 500, is_outlier_high |-> FALSE, median2 |-> 0]
    ELSE IF 2 * price > median2 * 10
    THEN [tier |-> "outlier_high", percentile |-> 1000, is_outlier_high |-> TRUE,
          median2 |-> median2]
    ELSE [tier |-> tier, percentile |-> RoundPercentile(rank, n),
          is_outlier_high |-> FALSE, median2 |-> clean_median2]

\* _classify_price_tier ranking a price by the number of prices strictly below it
_classify_price_tier_rank_below(price, cohort) ==
    LET prices == SelectSeq(cohort, LAMBDA x : x > 0)
        median2 == Median2(prices)
        kept == SelectSeq(prices, LAMBDA x : 2 * x <= median2 * 10)
        filtered_prices == IF Len(kept) < 3 THEN prices ELSE kept
        clean_median2 == Median2(filtered_prices)
        n == Len(filtered_prices)
        rank == CountAtMost(filtered_prices, price - 1)
        tier == IF 100 * rank <= 10 * n THEN "extremely_cheap"
                ELSE IF 100 * rank <= 25 * n THEN "budget"
                ELSE IF 100 * rank <= 75 * n THEN "mid"
                ELSE IF 100 * rank <= 90 * n THEN "premium"
                ELSE "luxury"
    IN
    IF Len(prices) < 3
    THEN [tier |-> "unknown", percentile |-> 500, is_outlier_high |-> FALSE, median2 |-> 0]
    ELSE IF 2 * price > median2 * 10
    THEN [tier |-> "outlier_high", percentile |-> 1000, is_outlier_high |-> TRUE,
          median2 |-> median2]
    ELSE [tier |-> tier, percentile |-> RoundPercentile(rank, n),
          is_outlier_high |-> FALSE, median2 |-> clean_median2]

\* _classify_price_tier(price, all_products); cohort is the list
\* [p.get('price', 0) for p in all_products], medians are kept doubled
_classify_price_tier(price, cohort) ==
    LET prices == SelectSeq(cohort, LAMBDA x : x > 0)
        median2 == Median2(prices)
        kept == SelectSeq(prices, LAMBDA x : 2 * x <= median2 * 10)
        filtered_prices == IF Len(kept) < 3 THEN prices ELSE kept
        clean_median2 == Median2(filtered_prices)
        n == Len(filtered_prices)
        rank == CountAtMost(filtered_prices, price)
        tier == IF 100 * rank <= 10 * n THEN "extremely_cheap"
                ELSE IF 100 * rank <= 25 * n THEN "budget"
                ELSE IF 100 * rank <= 75 * n THEN "mid"
                ELSE IF 100 * rank <= 90 * n THEN "premium"
                ELSE "luxury"
    IN
    IF Len(prices) < 3
    THEN [tier |-> "unknown", percentile |-> 500, is_outlier_high |-> FALSE, median2 |-> 0]
    ELSE IF 2 * price > median2 * 10
    THEN [tier |-> "outlier_high", percentile |-> 1000, is_outlier_high |-> TRUE,
          median2 |-> median2]
    ELSE [tier |-> tier, percentile |-> RoundPercentile(rank, n),
          is_outlier_high |-> FALSE, median2 |-> clean_median2]

trusted_sellers ==
    { <<"target">>, <<"walmart">>, <<"best", "buy">>, <<"amazon">>, <<"ulta">>, <<"kohl">>,
      <<"barnes", "&", "noble">>, <<"books", "a", "million">>, <<"abebooks">>, <<"dyson">>,
      <<"ikea">>, <<"macy">>, <<"west", "elm">>, <<"crate", "&", "barrel">>, <<"wayfair">> }

\* the test turned round: a listing counts as trusted when no major retailer
\* is named
IsTrustedInverted(product) ==
    ~ \E trusted \in trusted_sellers :
        Contains(product.seller_name, trusted) \/ Contains(product.source, trusted)

IsTrusted(product) ==
    \E trusted \in trusted_sellers :
        Contains(product.seller_name, trusted) \/ Contains(product.source, trusted)

\* the sum returned as it is
NoClamp(risk_score) == risk_score

\* min(risk_score, 1.0)
ClampScore(risk_score) == IF risk_score < 100 THEN risk_score ELSE 100

\* _calculate_risk(product, all_products) -> (risk_score, risk_factors), with the
\* price_tier and price_percentile it writes on the product (has_tier: written or not)
_calculate_risk(product, cohort) ==
    LET price == product.price
        rating == product.rating
        reviews == product.reviews
        seller_rating == product.seller_rating
        is_trusted == IsTrusted(product)
        has_tier == Len(cohort) >= 5
        info == _classify_price_tier(price, cohort)
        percent_below == (100 * (info.median2 - 2 * price)) \div info.median2
        price_term ==
            IF ~has_tier THEN [s |-> 0, f |-> <<>>]
            ELSE IF info.is_outlier_high
            THEN [s |-> 15,
                  f |-> <<Factor("High-value or rare item - verify authenticity carefully", 0)>>]
            ELSE IF info.tier = "extremely_cheap"
            THEN IF is_trusted /\ product.platform = "google_shopping"
                 THEN [s |-> 10,
                       f |-> <<Factor("Significantly below typical price (possible clearance)", 0)>>]
                 ELSE [s |-> 50, f |-> <<Factor("Extremely cheap: % below typical price", percent_below)>>]
            ELSE IF info.tier = "budget"
            THEN IF is_trusted THEN [s |-> 0, f |-> <<>>]
                 ELSE [s |-> 20,
                       f |-> <<Factor("Lower-priced option - verify condition and seller", 0)>>]
            ELSE IF info.tier = "mid" THEN [s |-> 0, f |-> <<>>]
            ELSE IF info.tier \in {"premium", "luxury"} /\ ~is_trusted /\ reviews = 0
            THEN [s |-> 20, f |-> <<Factor("High-value item from seller with no reviews", 0)>>]
            ELSE [s |-> 0, f |-> <<>>]
        rating_term ==
            IF rating = 0
            THEN IF is_trusted THEN [s |-> 5, f |-> <<>>]
                 ELSE [s |-> 15, f |-> <<Factor("No rating available", 0)>>]
            ELSE IF rating < 30 THEN [s |-> 25, f |-> <<Factor("Low rating: /5", rating)>>]
            ELSE [s |-> 0, f |-> <<>>]
        reviews_term ==
            IF reviews = 0
            THEN IF is_trusted THEN [s |-> 5, f |-> <<>>]
                 ELSE [s |-> 15, f |-> <<Factor("Very few reviews (0)", 0)>>]
            ELSE IF reviews < 5 THEN [s |-> 10, f |-> <<Factor("Few reviews ()", reviews)>>]
            ELSE [s |-> 0, f |-> <<>>]
        seller_term ==
            IF seller_rating > 0 /\ seller_rating < 30
            THEN [s |-> 20, f |-> <<Factor("Low seller rating: /5", seller_rating)>>]
            ELSE [s |-> 0, f |-> <<>>]
    IN
    [ risk_score |-> ClampScore(price_term.s + rating_term.s + reviews_term.s + seller_term.s),
      risk_factors |-> price_term.f \o rating_term.f \o reviews_term.f \o seller_term.f,
      has_tier |-> has_tier,
      price_tier |-> IF has_tier THEN info.tier ELSE "",
      price_percentile |-> IF has_tier THEN info.percentile ELSE 0 ]

\* the thresholds 0.6 and 0.3
_get_risk_level_60_30(risk_score) ==
    IF risk_score >= 60 THEN "HIGH"
    ELSE IF risk_score >= 30 THEN "MEDIUM"
    ELSE "LOW"

\* _get_risk_level(risk_score)
_get_risk_level(risk_score) ==
    IF risk_score >= 55 THEN "HIGH"
    ELSE IF risk_score >= 25 THEN "MEDIUM"
    ELSE "LOW"

\* an explanation dict; kind "none" is Python's None and kind "empty" is {}
Analysis(kind, prob, flags, reasoning, rec) ==
    [kind |-> kind, scam_probability |-> prob, red_flags |-> flags,
     reasoning |-> reasoning, recommendation |-> rec]

None == Analysis("none", 0, <<>>, "", "")

EmptyDict == Analysis("empty", 0, <<>>, "", "")

\* Python truthiness of what explain_risk returns
Truthy(analysis) == analysis.kind = "dict"

\* product.get(key, default) for an annotation key
Get(product, key, default) == IF key \in product.keys THEN product[key] ELSE default

\* _get_default_analysis(product)
_get_default_analysis(product) ==
    LET risk_level == Get(product, "risk_level", "UNKNOWN")
        risk_score == Get(product, "risk_score", 0)
        risk_factors == Get(product, "risk_factors", <<>>)
    IN
    IF risk_level = "LOW"
    THEN Analysis("dict", risk_score, <<>>,
            "This listing appears legitimate with reasonable pricing and good seller reputation.",
            "SAFE TO BUY")
    ELSE IF risk_level = "MEDIUM"
    THEN Analysis("dict", risk_score, risk_factors,
            "This listing has some minor concerns. Verify seller details before purchasing.",
            "PROCEED WITH CAUTION")
    ELSE Analysis("dict", risk_score, risk_factors,
            "This listing shows multiple warning signs. Exercise extreme caution or avoid.",
            "AVOID")

\* get_price_statistics(products); cohort is [p.get('price', 0) for p in products].
\* average is sum / n, median is median2 / 2, std_dev is sqrt(var_n2) / n
get_price_statistics(cohort) ==
    LET prices == SelectSeq(cohort, LAMBDA x : x > 0)
        median2 == Median2(prices)
        kept == SelectSeq(prices, LAMBDA x : 2 * x <= median2 * 10)
        filtered_prices == IF Len(kept) < 2 THEN prices ELSE kept
        n == Len(filtered_prices)
        total == SumSeq(filtered_prices)
        squares == SumSeq([i \in 1..n |-> filtered_prices[i] * filtered_prices[i]])
    IN
    IF prices = <<>>
    THEN [empty |-> TRUE, count |-> 0, min |-> 0, max |-> 0, sum |-> 0, n |-> 0,
          median2 |-> 0, var_n2 |-> 0, range |-> 0]
    ELSE [empty |-> FALSE, count |-> Len(prices),
          min |-> MinOf(filtered_prices), max |-> MaxOf(filtered_prices),
          sum |-> total, n |-> n, median2 |-> Median2(filtered_prices),
          var_n2 |-> IF n > 1 THEN n * squares - total * total ELSE 0,
          range |-> MaxOf(filtered_prices) - MinOf(filtered_prices)]

\* float('inf') as the key of a listing without a price
Inf == 1000000000

\* get_smart_recommendations that takes the cheapest listing of any risk level
get_smart_recommendations_any_level(ps) ==
    LET low_risk == InOrder({i \in 1..Len(ps) : TRUE})
        medium_risk == InOrder({i \in 1..Len(ps) : Get(ps[i], "risk_level", "") = "MEDIUM"})
        key(i) == IF ps[i].price_type = "absent" THEN Inf ELSE ps[i].price
        best == CHOOSE a \in 1..Len(low_risk) :
                    /\ \A b \in 1..Len(low_risk) : key(low_risk[a]) <= key(low_risk[b])
                    /\ \A b \in 1..(a - 1) : key(low_risk[b]) > key(low_risk[a])
        none == [title |-> <<>>, price |-> 0, link |-> "", reason |-> ""]
    IN
    IF ps = <<>> THEN [keys |-> {}, best_deal |-> none, proceed_with_caution |-> 0]
    ELSE [ keys |-> (IF low_risk # <<>> THEN {"best_deal"} ELSE {})
                       \cup (IF medium_risk # <<>> THEN {"proceed_with_caution"} ELSE {}),
           best_deal |-> IF low_risk = <<>> THEN none
                         ELSE [title |-> ps[low_risk[best]].title,
                               price |-> ps[low_risk[best]].price,
                               link |-> ps[low_risk[best]].link,
                               reason |-> "Lowest price among low-risk products"],
           proceed_with_caution |-> Len(medium_risk) ]

\* get_smart_recommendations(products): the dict returned, keys being the keys it
\* holds; min(low_risk, key=...) is the first listing of low_risk with the
\* smallest price
get_smart_recommendations(ps) ==
    LET low_risk == InOrder({i \in 1..Len(ps) : Get(ps[i], "risk_level", "") = "LOW"})
        medium_risk == InOrder({i \in 1..Len(ps) : Get(ps[i], "risk_level", "") = "MEDIUM"})
        key(i) == IF ps[i].price_type = "absent" THEN Inf ELSE ps[i].price
        best == CHOOSE a \in 1..Len(low_risk) :
                    /\ \A b \in 1..Len(low_risk) : key(low_risk[a]) <= key(low_risk[b])
                    /\ \A b \in 1..(a - 1) : key(low_risk[b]) > key(low_risk[a])
        none == [title |-> <<>>, price |-> 0, link |-> "", reason |-> ""]
    IN
    IF ps = <<>> THEN [keys |-> {}, best_deal |-> none, proceed_with_caution |-> 0]
    ELSE [ keys |-> (IF low_risk # <<>> THEN {"best_deal"} ELSE {})
                       \cup (IF medium_risk # <<>> THEN {"proceed_with_caution"} ELSE {}),
           best_deal |-> IF low_risk = <<>> THEN none
                         ELSE [title |-> ps[low_risk[best]].title,
                               price |-> ps[low_risk[best]].price,
                               link |-> ps[low_risk[best]].link,
                               reason |-> "Lowest price among low-risk products"],
           proceed_with_caution |-> Len(medium_risk) ]

-----------------------------------------------------------------------------
(* app/models/llm_reasoner.py: the explanation capability *)

fast_model == "llama-3.1-8b-instant"

smart_model == "llama-3.1-70b-versatile"

RECURSIVE Digits(_)
\* the decimal digits of a natural number, as characters
Digits(n) ==
    LET d == <<"0", "1", "2", "3", "4", "5", "6", "7", "8", "9">> IN
    IF n < 10 THEN <<d[n + 1]>> ELSE Digits(n \div 10) \o <<d[(n % 10) + 1]>>

\* str(price) of a float holding a whole number: "20.0"
PriceStr(price) == Digits(price) \o <<".", "0">>

\* the characters of a word of the model's vocabulary; a word that is not
\* spelled out here stands as one symbol
Chars(w) ==
    CASE w = "car" -> <<"c", "a", "r">>
      [] w = "kids" -> <<"k", "i", "d", "s">>
      [] w = "used" -> <<"u", "s", "e", "d">>
      [] w = "item" -> <<"i", "t", "e", "m">>
      [] w = "1" -> <<"1">>
      [] w = "19" -> <<"1", "9">>
      [] w = "HIGH" -> <<"H", "I", "G", "H">>
      [] w = "MEDIUM" -> <<"M", "E", "D", "I", "U", "M">>
      [] w = "LOW" -> <<"L", "O", "W">>
      [] OTHER -> <<w>>

RECURSIVE TitleStr(_)
\* the title as text: its words separated by single spaces
TitleStr(title) ==
    IF title = <<>> THEN <<>>
    ELSE IF Len(title) = 1 THEN Chars(title[1])
    ELSE Chars(title[1]) \o <<" ">> \o TitleStr(Tail(title))

\* _get_cache_key(product, risk_level): the text that is hashed,
\* f"{title}{price}{risk_level}", character by character; nothing separates the
\* three parts
_get_cache_key(product, risk_level) ==
    TitleStr(product.title) \o PriceStr(product.price) \o Chars(risk_level)

\* what client.chat.completions.create and json.loads can give for one request:
\* an exception, or a parsed JSON object (possibly {})
LLMAnswers ==
    { Analysis("dict", 50, <<Factor("unclear seller", 0)>>, "uncertain", "CAUTION"),
      Analysis("dict", 90, <<Factor("too cheap", 0)>>, "likely scam", "AVOID"),
      EmptyDict }

ApiOutcomes == {[raised |-> TRUE, answer |-> None]}
                  \cup {[raised |-> FALSE, answer |-> a] : a \in LLMAnswers}

\* one entry of the run's log: an invocation of explain_risk with the value it
\* returned, a cache lookup, a request to the client with the parsed answer
\* (None when it raised), or a cache store
Event(op, idx, key, model, ret) ==
    [op |-> op, idx |-> idx, key |-> key, model |-> model, ret |-> ret]

\* explain_risk that stores an answer only when it is not empty
explain_risk_skip_empty(en, c, product, risk_level, use_smart_model, outcome) ==
    LET cache_key == _get_cache_key(product, risk_level)
        model == IF use_smart_model THEN smart_model ELSE fast_model
        read == Event("cache_read", 0, cache_key, "", None)
        call == Event("api_call", 0, cache_key, model, outcome.answer)
        write == Event("cache_write", 0, cache_key, "", outcome.answer)
    IN
    IF ~en THEN [ret |-> None, cache |-> c, events |-> <<>>]
    ELSE IF cache_key \in DOMAIN c
    THEN [ret |-> c[cache_key], cache |-> c, events |-> <<read>>]
    ELSE IF outcome.raised
    THEN [ret |-> None, cache |-> c, events |-> <<read, call>>]
    ELSE IF outcome.answer = EmptyDict
    THEN [ret |-> outcome.answer, cache |-> c, events |-> <<read, call>>]
    ELSE [ret |-> outcome.answer,
          cache |-> [x \in DOMAIN c \cup {cache_key} |->
                        IF x = cache_key THEN outcome.answer ELSE c[x]],
          events |-> <<read, call, write>>]

\* explain_risk in which a call for the strong model goes past the cache and
\* stores its own answer
explain_risk_smart_bypass(en, c, product, risk_level, use_smart_model, outcome) ==
    LET cache_key == _get_cache_key(product, risk_level)
        model == IF use_smart_model THEN smart_model ELSE fast_model
        read == Event("cache_read", 0, cache_key, "", None)
        call == Event("api_call", 0, cache_key, model, outcome.answer)
        write == Event("cache_write", 0, cache_key, "", outcome.answer)
    IN
    IF ~en THEN [ret |-> None, cache |-> c, events |-> <<>>]
    ELSE IF cache_key \in DOMAIN c /\ ~use_smart_model
    THEN [ret |-> c[cache_key], cache |-> c, events |-> <<read>>]
    ELSE IF outcome.raised
    THEN [ret |-> None, cache |-> c, events |-> <<read, call>>]
    ELSE [ret |-> outcome.answer,
          cache |-> [x \in DOMAIN c \cup {cache_key} |->
                        IF x = cache_key THEN outcome.answer ELSE c[x]],
          events |-> <<read, call, write>>]

\* explain_risk(product, risk_level, ..., use_smart_model) on cache c, when the
\* client's outcome for a request is `outcome`: the value returned, the cache
\* afterwards and the accesses made, in order
explain_risk(en, c, product, risk_level, use_smart_model, outcome) ==
    LET cache_key == _get_cache_key(product, risk_level)
        model == IF use_smart_model THEN smart_model ELSE fast_model
        read == Event("cache_read", 0, cache_key, "", None)
        call == Event("api_call", 0, cache_key, model, outcome.answer)
        write == Event("cache_write", 0, cache_key, "", outcome.answer)
    IN
    IF ~en THEN [ret |-> None, cache |-> c, events |-> <<>>]
    ELSE IF cache_key \in DOMAIN c
    THEN [ret |-> c[cache_key], cache |-> c, events |-> <<read>>]
    ELSE IF outcome.raised
    THEN [ret |-> None, cache |-> c, events |-> <<read, call>>]
    ELSE [ret |-> outcome.answer,
          cache |-> [x \in DOMAIN c \cup {cache_key} |->
                        IF x = cache_key THEN outcome.answer ELSE c[x]],
          events |-> <<read, call, write>>]

-----------------------------------------------------------------------------
(* The listings a run can be given *)

\* a listing as a scraper normalises it, with no annotation yet
Listing(title, price, rating, reviews, seller_name, seller_rating, platform) ==
    [ title_type |-> "str", price_type |-> "float",
      title |-> title, price |-> price, rating |-> rating, reviews |-> reviews,
      seller_name |-> seller_name, seller_rating |-> seller_rating,
      source |-> seller_name, platform |-> platform, link |-> "",
      keys |-> {},
      is_valid_product |-> FALSE, invalid_reason |-> "",
      risk_score |-> 0, risk_factors |-> <<>>, risk_level |-> "",
      price_tier |-> "", price_percentile |-> 0,
      fraud_analysis |-> None, risk_explanation |-> "" ]

\* Google Shopping listings (seller name = source, seller rating = rating)
Catalogue ==
    { Listing(<<"kids", "car">>, 25, 45, 3, <<"walmart">>, 45, "google_shopping"),
      Listing(<<"used", "car">>, 20, 25, 10, <<"acme">>, 25, "google_shopping"),
      Listing(<<"used", "car">>, 30, 25, 3, <<"acme">>, 25, "google_shopping") }

Queries == { <<"car">>, <<"toy", "car">> }

Batches == UNION {[1..n -> Catalogue] : n \in 1..MaxBatch}

\* listings with a defective field: "title": null as a vendor response can hold
\* it, a null price, and a listing without a title key
Malformed ==
    { [Listing(<<>>, 20, 25, 10, <<"acme">>, 25, "google_shopping") EXCEPT !.title_type = "none"],
      [Listing(<<"used", "car">>, 0, 25, 10, <<"acme">>, 25, "google_shopping")
          EXCEPT !.price_type = "none"],
      [Listing(<<>>, 20, 25, 10, <<"acme">>, 25, "google_shopping") EXCEPT !.title_type = "absent"] }

\* short batches that may hold defective listings
MalformedBatches == UNION {[1..n -> Catalogue \cup Malformed] : n \in 1..MaxMalformedBatch}

-----------------------------------------------------------------------------
(* UniversalFraudDetector.analyze_products, step by step *)

NoUnit == [op |-> "none"]

NoStats == get_price_statistics(<<>>)

\* p.get('is_valid_product', True)
IsValid(product) == Get(product, "is_valid_product", TRUE)

\* valid_products, as indices into the batch
ValidIdx(ps) == InOrder({i \in 1..Len(ps) : IsValid(ps[i])})

\* the prices of the whole batch, rejected listings included
BatchPrices(ps) == [j \in 1..Len(ps) |-> ps[j].price]

\* [p.get('price', 0) for p in valid_products]
CohortPrices(ps) == [j \in 1..Len(ValidIdx(ps)) |-> ps[ValidIdx(ps)[j]].price]

\* [p for p in valid_products if p.get('risk_level') == level], as indices
LevelIdx(ps, level) ==
    InOrder({i \in 1..Len(ps) : IsValid(ps[i]) /\ Get(ps[i], "risk_level", "") = level})

\* a budget of 5 in which MEDIUM listings take the slots HIGH ones leave free
ProductsToAnalyzeFill(ps) ==
    Take(LevelIdx(ps, "HIGH"), 3)
        \o Take(LevelIdx(ps, "MEDIUM"), 5 - Len(Take(LevelIdx(ps, "HIGH"), 3)))

\* a selection that puts the MEDIUM listings before the HIGH ones
ProductsToAnalyzeMediumFirst(ps) ==
    Take(LevelIdx(ps, "MEDIUM"), 2) \o Take(LevelIdx(ps, "HIGH"), 3)

\* products_to_analyze = high_risk[:3] + medium_risk[:2]
ProductsToAnalyze(ps) == Take(LevelIdx(ps, "HIGH"), 3) \o Take(LevelIdx(ps, "MEDIUM"), 2)

\* the construction of the detector and of its explainer: the capability is
\* enabled exactly when an API key is configured, the cache starts empty
Init ==
    /\ enabled \in BOOLEAN
    /\ cache = [x \in {} |-> None]
    /\ pc = "idle"
    /\ query = <<>>
    /\ products = <<>>
    /\ to_analyze = <<>>
    /\ price_stats = NoStats
    /\ k = 1
    /\ log = <<>>
    /\ unit = NoUnit

\* analyze_products(products, query) is called
Call(batch, q) ==
    /\ pc = "idle"
    /\ products' = batch
    /\ query' = q
    /\ pc' = "step1"
    /\ UNCHANGED <<enabled, cache, to_analyze, price_stats, k, log, unit>>

\* Step 1: the validation loop over the whole batch. Nothing catches an
\* exception of is_valid_product: the loop stops at the first listing that
\* raises and analyze_products raises in its turn, the listings before it
\* keeping the annotations they were given
Validate ==
    /\ pc = "step1"
    /\ LET raising == {i \in 1..Len(products) : is_valid_product(products[i], query).raised # ""}
           stop == IF raising = {} THEN Len(products) + 1
                   ELSE CHOOSE i \in raising : \A j \in raising : i <= j
       IN
       /\ products' =
             [i \in 1..Len(products) |->
                 IF i >= stop THEN products[i]
                 ELSE LET v == is_valid_product(products[i], query) IN
                      [products[i] EXCEPT
                          !.is_valid_product = v.is_valid,
                          !.invalid_reason = IF v.is_valid THEN "" ELSE v.reason,
                          !.keys = @ \cup {"is_valid_product", "invalid_reason"}]]
       /\ pc' = IF raising = {} THEN "step2" ELSE "raised"
    /\ UNCHANGED <<enabled, cache, query, to_analyze, price_stats, k, log, unit>>

\* Step 2: the scoring loop over valid_products
Score ==
    /\ pc = "step2"
    /\ products' =
          [i \in 1..Len(products) |->
              IF ~IsValid(products[i]) THEN products[i]
              ELSE LET r == _calculate_risk(products[i], CohortPrices(products)) IN
                   [products[i] EXCEPT
                      !.risk_score = r.risk_score,
                      !.risk_factors = r.risk_factors,
                      !.risk_level = _get_risk_level(r.risk_score),
                      !.price_tier = r.price_tier,
                      !.price_percentile = r.price_percentile,
                      !.keys = @ \cup {"risk_score", "risk_factors", "risk_level"}
                                 \cup (IF r.has_tier THEN {"price_tier", "price_percentile"}
                                       ELSE {})]]
    /\ pc' = "step3"
    /\ UNCHANGED <<enabled, cache, query, to_analyze, price_stats, k, log, unit>>

\* Step 3, up to the loop: the selection and the test of the capability
Select ==
    /\ pc = "step3"
    /\ to_analyze' = ProductsToAnalyze(products)
    /\ k' = 1
    /\ IF to_analyze' # <<>> /\ enabled
       THEN /\ price_stats' = get_price_statistics(CohortPrices(products))
            /\ pc' = "explain"
       ELSE /\ price_stats' = price_stats
            /\ pc' = "step4"
    /\ UNCHANGED <<enabled, cache, query, products, log, unit>>

\* the loop of step 3 leaving at the first call that returns nothing
ExplainBreak ==
    /\ pc = "explain"
    /\ \E outcome \in ApiOutcomes :
          LET i == to_analyze[k]
              p == products[i]
              level == Get(p, "risk_level", "")
              r == explain_risk(enabled, cache, p, level, FALSE, outcome)
              analysis == r.ret
          IN
          /\ (Len(r.events) < 2) => outcome.raised
          /\ cache' = r.cache
          /\ log' = log \o <<Event("explain_risk", i, _get_cache_key(p, level), fast_model, r.ret)>>
                        \o [j \in 1..Len(r.events) |-> [r.events[j] EXCEPT !.idx = i]]
          /\ products' =
                IF Truthy(analysis)
                THEN [products EXCEPT
                        ![i].fraud_analysis = analysis,
                        ![i].risk_explanation = analysis.reasoning,
                        ![i].keys = @ \cup {"fraud_analysis", "risk_explanation"}]
                ELSE products
          /\ pc' = IF k < Len(to_analyze) /\ Truthy(analysis) THEN "explain" ELSE "step4"
    /\ k' = k + 1
    /\ UNCHANGED <<enabled, query, to_analyze, price_stats, unit>>

\* Step 3 in which a scam probability of 0.9 or more also raises the listing's
\* risk level to HIGH
ExplainRelevel ==
    /\ pc = "explain"
    /\ \E outcome \in ApiOutcomes :
          LET i == to_analyze[k]
              p == products[i]
              level == Get(p, "risk_level", "")
              r == explain_risk(enabled, cache, p, level, FALSE, outcome)
              analysis == r.ret
          IN
          /\ (Len(r.events) < 2) => outcome.raised
          /\ cache' = r.cache
          /\ log' = log \o <<Event("explain_risk", i, _get_cache_key(p, level), fast_model, r.ret)>>
                        \o [j \in 1..Len(r.events) |-> [r.events[j] EXCEPT !.idx = i]]
          /\ products' =
                IF Truthy(analysis)
                THEN [products EXCEPT
                        ![i].fraud_analysis = analysis,
                        ![i].risk_explanation = analysis.reasoning,
                        ![i].risk_level = IF analysis.scam_probability >= 90 THEN "HIGH" ELSE @,
                        ![i].keys = @ \cup {"fraud_analysis", "risk_explanation"}]
                ELSE products
    /\ k' = k + 1
    /\ pc' = IF k < Len(to_analyze) THEN "explain" ELSE "step4"
    /\ UNCHANGED <<enabled, query, to_analyze, price_stats, unit>>

\* Step 3, one iteration of the loop over products_to_analyze
Explain ==
    /\ pc = "explain"
    /\ \E outcome \in ApiOutcomes :
          LET i == to_analyze[k]
              p == products[i]
              level == Get(p, "risk_level", "")
              r == explain_risk(enabled, cache, p, level, FALSE, outcome)
              analysis == r.ret
          IN
          \* an outcome is drawn only when the client is reached
          /\ (Len(r.events) < 2) => outcome.raised
          /\ cache' = r.cache
          /\ log' = log \o <<Event("explain_risk", i, _get_cache_key(p, level), fast_model, r.ret)>>
                        \o [j \in 1..Len(r.events) |-> [r.events[j] EXCEPT !.idx = i]]
          /\ products' =
                IF Truthy(analysis)
                THEN [products EXCEPT
                        ![i].fraud_analysis = analysis,
                        ![i].risk_explanation = analysis.reasoning,
                        ![i].keys = @ \cup {"fraud_analysis", "risk_explanation"}]
                ELSE products
    /\ k' = k + 1
    /\ pc' = IF k < Len(to_analyze) THEN "explain" ELSE "step4"
    /\ UNCHANGED <<enabled, query, to_analyze, price_stats, unit>>

\* Step 4 placed inside the branch of step 3 that runs the explanations
DefaultsInBranch ==
    /\ pc = "step4"
    /\ products' =
          [i \in 1..Len(products) |->
              IF /\ to_analyze # <<>> /\ enabled
                 /\ IsValid(products[i]) /\ "fraud_analysis" \notin products[i].keys
              THEN [products[i] EXCEPT
                      !.fraud_analysis = _get_default_analysis(products[i]),
                      !.keys = @ \cup {"fraud_analysis"}]
              ELSE products[i]]
    /\ pc' = "done"
    /\ UNCHANGED <<enabled, cache, query, to_analyze, price_stats, k, log, unit>>

\* Step 4 without the test "'fraud_analysis' not in product"
DefaultsOverwrite ==
    /\ pc = "step4"
    /\ products' =
          [i \in 1..Len(products) |->
              IF IsValid(products[i])
              THEN [products[i] EXCEPT
                      !.fraud_analysis = _get_default_analysis(products[i]),
                      !.keys = @ \cup {"fraud_analysis"}]
              ELSE products[i]]
    /\ pc' = "done"
    /\ UNCHANGED <<enabled, cache, query, to_analyze, price_stats, k, log, unit>>

\* Step 4 with the red flags of every default taken from the first valid listing
DefaultsFromFirst ==
    /\ pc = "step4"
    /\ products' =
          [i \in 1..Len(products) |->
              IF IsValid(products[i]) /\ "fraud_analysis" \notin products[i].keys
              THEN [products[i] EXCEPT
                      !.fraud_analysis =
                          [_get_default_analysis(products[i]) EXCEPT
                              !.red_flags = products[ValidIdx(products)[1]].risk_factors],
                      !.keys = @ \cup {"fraud_analysis"}]
              ELSE products[i]]
    /\ pc' = "done"
    /\ UNCHANGED <<enabled, cache, query, to_analyze, price_stats, k, log, unit>>

\* Step 4: the default analysis for every valid product without one, and the return
Defaults ==
    /\ pc = "step4"
    /\ products' =
          [i \in 1..Len(products) |->
              IF IsValid(products[i]) /\ "fraud_analysis" \notin products[i].keys
              THEN [products[i] EXCEPT
                      !.fraud_analysis = _get_default_analysis(products[i]),
                      !.keys = @ \cup {"fraud_analysis"}]
              ELSE products[i]]
    /\ pc' = "done"
    /\ UNCHANGED <<enabled, cache, query, to_analyze, price_stats, k, log, unit>>

Next ==
    \/ \E batch \in Batches \cup MalformedBatches, q \in Queries : Call(batch, q)
    \/ Validate
    \/ Score
    \/ Select
    \/ Explain
    \/ Defaults

Spec == Init /\ [][Next]_vars

-----------------------------------------------------------------------------
(* _classify_price_tier and _calculate_risk applied alone *)

RECURSIVE Repeat(_, _)
Repeat(x, n) == IF n = 0 THEN <<>> ELSE <<x>> \o Repeat(x, n - 1)

RECURSIVE Expand(_, _)
\* the sorted list holding counts[i] copies of values[i]
Expand(values, counts) ==
    IF values = <<>> THEN <<>>
    ELSE Repeat(Head(values), Head(counts)) \o Expand(Tail(values), Tail(counts))

\* the lists of at most maxlen prices drawn from values, up to order (both
\* functions sort or count the list, so its order is immaterial)
Cohorts(values, maxlen) ==
    { Expand(values, counts) :
        counts \in {c \in [1..Len(values) -> 0..maxlen] : SumSeq(c) <= maxlen} }

\* prices of the tier check: 0 is not counted, 50 is exactly 10 x 5, 60 is above it
TierPrices == <<0, 1, 5, 50, 60>>

RiskPrices == <<1, 5, 60>>

IdleRun ==
    /\ enabled = FALSE
    /\ cache = [x \in {} |-> None]
    /\ pc = "idle"
    /\ query = <<>>
    /\ products = <<>>
    /\ to_analyze = <<>>
    /\ price_stats = NoStats
    /\ k = 1
    /\ log = <<>>

InitTier ==
    /\ IdleRun
    /\ unit \in { [op |-> "tier_input", price |-> TierPrices[i], cohort |-> c] :
                    i \in 1..Len(TierPrices), c \in Cohorts(TierPrices, MaxCohort) }

ApplyTier ==
    /\ unit.op = "tier_input"
    /\ unit' = [op |-> "tier", price |-> unit.price, cohort |-> unit.cohort,
                result |-> _classify_price_tier(unit.price, unit.cohort)]
    /\ UNCHANGED pipeline_vars

NextTier == ApplyTier

SpecTier == InitTier /\ [][NextTier]_vars

RiskListings ==
    { Listing(<<"used", "car">>, RiskPrices[i], rating, reviews, seller, seller_rating, platform) :
        i \in 1..Len(RiskPrices), rating \in {0, 25, 45}, reviews \in {0, 3, 10},
        seller \in {<<"walmart">>, <<"acme">>}, seller_rating \in {0, 25, 45},
        platform \in {"google_shopping", "ebay"} }

InitRisk ==
    /\ IdleRun
    /\ unit \in { [op |-> "risk_input", product |-> p, cohort |-> c] :
                    p \in RiskListings, c \in Cohorts(RiskPrices, MaxRiskCohort) }

ApplyRisk ==
    /\ unit.op = "risk_input"
    /\ unit' = [op |-> "risk", product |-> unit.product, cohort |-> unit.cohort,
                result |-> _calculate_risk(unit.product, unit.cohort),
                level |-> _get_risk_level(_calculate_risk(unit.product, unit.cohort).risk_score)]
    /\ UNCHANGED pipeline_vars

NextRisk == ApplyRisk

SpecRisk == InitRisk /\ [][NextRisk]_vars

-----------------------------------------------------------------------------
(* get_price_statistics applied alone, next to the prices _classify_price_tier *)
(* ranks a listing against                                                     *)

\* filtered_prices of _classify_price_tier: the positive prices that are at
\* most 10 times their median, or all of them when fewer than 3 are left
\* (<<>> when the classifier returns 'unknown' before filtering)
filtered_prices(cohort) ==
    LET prices == SelectSeq(cohort, LAMBDA x : x > 0)
        kept == SelectSeq(prices, LAMBDA x : 2 * x <= Median2(prices) * 10)
    IN  IF Len(prices) < 3 THEN <<>>
        ELSE IF Len(kept) < 3 THEN prices
        ELSE kept

InitStats ==
    /\ IdleRun
    /\ unit \in { [op |-> "stats_input", cohort |-> c] : c \in Cohorts(TierPrices, MaxCohort) }

ApplyStats ==
    /\ unit.op = "stats_input"
    /\ unit' = [op |-> "stats", cohort |-> unit.cohort,
                result |-> get_price_statistics(unit.cohort),
                tier_prices |-> filtered_prices(unit.cohort)]
    /\ UNCHANGED pipeline_vars

NextStats == ApplyStats

SpecStats == InitStats /\ [][NextStats]_vars

-----------------------------------------------------------------------------
(* get_smart_recommendations applied alone, to listings as a run leaves them *)

\* a listing with its link
Linked(listing, link) == [listing EXCEPT !.link = link]

\* step 2 on a valid listing, r being what _calculate_risk returned for it
WithRisk(listing, r) ==
    [listing EXCEPT
        !.is_valid_product = TRUE,
        !.risk_score = r.risk_score,
        !.risk_factors = r.risk_factors,
        !.risk_level = _get_risk_level(r.risk_score),
        !.keys = {"is_valid_product", "invalid_reason", "risk_score",
                  "risk_factors", "risk_level"}]

\* step 4 on a scored listing
WithDefault(product) ==
    [product EXCEPT !.fraud_analysis = _get_default_analysis(product),
                    !.keys = @ \cup {"fraud_analysis"}]

\* step 1 on a listing the gate rejects: no risk annotation follows
Rejected(listing) ==
    [listing EXCEPT
        !.invalid_reason = "Product is a toy (contains toy indicators)",
        !.keys = {"is_valid_product", "invalid_reason"}]

\* two LOW listings at the same price, a dearer LOW one, a cheaper MEDIUM one and
\* a cheaper HIGH one, before they are scored
RecValid ==
    { Linked(Listing(<<"used", "car">>, 20, 45, 3, <<"acme">>, 45, "ebay"), "link-a"),
      Linked(Listing(<<"used", "suv">>, 20, 45, 10, <<"acme">>, 45, "ebay"), "link-b"),
      Linked(Listing(<<"used", "sedan">>, 30, 45, 10, <<"acme">>, 45, "ebay"), "link-c"),
      Linked(Listing(<<"used", "van">>, 10, 25, 10, <<"acme">>, 25, "ebay"), "link-d"),
      Linked(Listing(<<"used", "truck">>, 5, 25, 3, <<"acme">>, 25, "ebay"), "link-e") }

\* the listings as a run over a batch of fewer than 5 listings leaves them (scored
\* without a price tier), and a rejected listing cheaper than all
RecListings ==
    { WithDefault(p) :
        p \in { WithRisk(x[1], x[2]) : x \in { <<l, _calculate_risk(l, <<>>)>> : l \in RecValid } } }
      \cup { Rejected(Linked(Listing(<<"toy", "car">>, 1, 45, 10, <<"acme">>, 45, "ebay"), "link-f")) }

InitRec ==
    /\ IdleRun
    /\ unit \in { [op |-> "rec_input", products |-> ps] :
                    ps \in UNION {[1..n -> RecListings] : n \in 0..MaxRecBatch} }

ApplyRec ==
    /\ unit.op = "rec_input"
    /\ unit' = [op |-> "rec", products |-> unit.products,
                result |-> get_smart_recommendations(unit.products)]
    /\ UNCHANGED pipeline_vars

NextRec == ApplyRec

SpecRec == InitRec /\ [][NextRec]_vars

-----------------------------------------------------------------------------
(* is_valid_product applied alone *)

\* a listing with the given title and price fields, the other fields being those
\* of an ordinary listing
Raw(title_type, title, price_type, price) ==
    [Listing(title, price, 45, 10, <<"acme">>, 45, "google_shopping")
        EXCEPT !.title_type = title_type, !.price_type = price_type]

\* titles: 4 and 5 characters long, plain, with one spam phrase twice, with two
\* spam phrases, with spam phrases and a toy word, toy vehicles with and without
\* a general toy word, a toy brand, 'rc' last and 'rc' followed by a word, a
\* digital product
GateTitles ==
    { <<"used">>, <<"sedan">>, <<"used", "car">>,
      <<"buy", "now", "buy", "now">>, <<"act", "now", "buy", "now">>,
      <<"act", "now", "buy", "now", "toy">>, <<"buy", "now", "toy", "car">>,
      <<"kids", "electric", "ride-on", "car", "12v">>,
      <<"electric", "ride-on", "car", "12v">>,
      <<"costway", "electric", "car">>,
      <<"fast", "car", "rc">>, <<"rc", "fast", "car">>,
      <<"kids", "laptop", "gift", "card">> }

GatePrices == {-1, 0, 40, 80, 80000}

GateListings ==
    { Raw("str", t, "float", p) : t \in GateTitles, p \in GatePrices }
        \cup { Raw(tt, <<>>, "float", p) : tt \in {"absent", "none", "int"}, p \in GatePrices }
        \cup { Raw("str", t, pt, 0) : t \in GateTitles, pt \in {"absent", "none", "str"} }
        \cup { Raw(tt, <<>>, pt, 0) : tt \in {"absent", "none", "int"},
                                     pt \in {"absent", "none", "str"} }

GateQueries == { <<"car">>, <<"toy", "car">>, <<"kids", "laptop">>, <<"laptop">>, <<"sedan">> }

InitGate ==
    /\ IdleRun
    /\ unit \in { [op |-> "gate_input", product |-> p, query |-> q] :
                    p \in GateListings, q \in GateQueries }

ApplyGate ==
    /\ unit.op = "gate_input"
    /\ unit' = [op |-> "gate", product |-> unit.product, query |-> unit.query,
                result |-> is_valid_product(unit.product, unit.query)]
    /\ UNCHANGED pipeline_vars

NextGate == ApplyGate

SpecGate == InitGate /\ [][NextGate]_vars

-----------------------------------------------------------------------------
(* Vocabulary of the properties *)

Done == pc = "done"

ValidSet == {i \in 1..Len(products) : IsValid(products[i])}

Scored(i) == "risk_level" \in products[i].keys

LevelSet(level) == {i \in ValidSet : Scored(i) /\ products[i].risk_level = level}

Selected == {to_analyze[j] : j \in 1..Len(to_analyze)}

\* the positions of the log holding an event of kind op about listing i
EventsOf(op, i) == {a \in 1..Len(log) : log[a].op = op /\ log[a].idx = i}

AllEvents(op) == {a \in 1..Len(log) : log[a].op = op}

Invoked == {i \in 1..Len(products) : EventsOf("explain_risk", i) # {}}

\* the values explain_risk returned for listing i that the pipeline accepts
AcceptedFor(i) == {log[a].ret : a \in {b \in EventsOf("explain_risk", i) : Truthy(log[b].ret)}}

HasDefault(i) ==
    /\ "fraud_analysis" \in products[i].keys
    /\ products[i].fraud_analysis = _get_default_analysis(products[i])

Min(a, b) == IF a < b THEN a ELSE b

-----------------------------------------------------------------------------
(* C1: when analyze_products has returned, every listing that passed the     *)
(* validity gate carries one fraud_analysis: the value explain_risk returned *)
(* for that listing when it returned a usable one, and otherwise the default *)
(* built from the listing's own risk annotations; whether the capability is  *)
(* enabled or not and whatever each call's outcome was.                      *)
C1_OneAnalysis ==
    Done =>
        \A i \in ValidSet :
            /\ "fraud_analysis" \in products[i].keys
            /\ IF AcceptedFor(i) # {}
               THEN products[i].fraud_analysis \in AcceptedFor(i)
               ELSE products[i].fraud_analysis = _get_default_analysis(products[i])

\* a run that ends with a generated analysis on one valid listing, the default
\* on a selected listing whose call raised, and the default on an unselected one
C1_Witness ==
    /\ Done
    /\ \E i \in ValidSet : AcceptedFor(i) # {} /\ ~HasDefault(i)
    /\ \E i \in Selected : AcceptedFor(i) = {} /\ HasDefault(i)
                            /\ \E a \in EventsOf("api_call", i) : log[a].ret = None
    /\ \E i \in ValidSet \ Selected : HasDefault(i)

(* C2: in a run with H HIGH and M MEDIUM valid listings, the listings chosen  *)
(* for explanation are exactly min(3,H) HIGH and min(2,M) MEDIUM ones (a free *)
(* HIGH slot is not given to a MEDIUM listing); explain_risk is invoked for   *)
(* no other listing and at most 5 times, with the capability enabled once for *)
(* each chosen listing; every other valid listing, the LOW ones included,     *)
(* ends with the default explanation.                                         *)
C2_Budget ==
    /\ Invoked \subseteq Selected
    /\ Cardinality(AllEvents("explain_risk")) <= 5
    /\ Done =>
          /\ Cardinality(Selected) = Len(to_analyze)
          /\ Cardinality(Selected \cap LevelSet("HIGH")) = Min(3, Cardinality(LevelSet("HIGH")))
          /\ Cardinality(Selected \cap LevelSet("MEDIUM")) = Min(2, Cardinality(LevelSet("MEDIUM")))
          /\ Selected \subseteq LevelSet("HIGH") \cup LevelSet("MEDIUM")
          /\ enabled => \A i \in Selected : Cardinality(EventsOf("explain_risk", i)) = 1
          /\ \A i \in ValidSet \ Selected : HasDefault(i)

\* 2 HIGH and 3 MEDIUM listings: 2 + 2 are explained, the third MEDIUM one is not
C2_Witness ==
    /\ Done
    /\ enabled
    /\ Cardinality(LevelSet("HIGH")) = 2
    /\ Cardinality(LevelSet("MEDIUM")) = 3
    /\ Cardinality(Invoked) = 4
    /\ \E i \in LevelSet("MEDIUM") \ Invoked : HasDefault(i)

(* C3: with the capability disabled a run makes no request to the model      *)
(* client, looks up and stores no cache entry, and still ends with the        *)
(* default explanation of its risk level on every valid listing.              *)
C3_Disabled ==
    ~enabled =>
        /\ AllEvents("api_call") = {}
        /\ AllEvents("cache_read") = {}
        /\ AllEvents("cache_write") = {}
        /\ DOMAIN cache = {}
        /\ Done => \A i \in ValidSet : HasDefault(i)

\* a disabled run that ends with listings of two risk levels selected and defaulted
C3_Witness ==
    /\ Done
    /\ ~enabled
    /\ \E i \in Selected \cap LevelSet("HIGH") : HasDefault(i)
    /\ \E i \in Selected \cap LevelSet("MEDIUM") : HasDefault(i)
    /\ log = <<>>

\* the value the first invocation of explain_risk for listing i returned
FirstReturn(i) ==
    LET first == CHOOSE a \in EventsOf("explain_risk", i) :
                    \A b \in EventsOf("explain_risk", i) : a <= b
    IN  log[first].ret

Uncertain(analysis) ==
    Truthy(analysis) /\ 40 <= analysis.scam_probability /\ analysis.scam_probability <= 60

(* C4: in the pipeline's enrichment step every selected HIGH listing whose   *)
(* first explanation has scam_probability within 0.4..0.6 is explained a      *)
(* second time with the strong model; MEDIUM listings and listings with a     *)
(* probability outside that band are explained once.                          *)
C4_Escalation ==
    Done =>
        \A i \in Invoked :
            IF products[i].risk_level = "HIGH" /\ Uncertain(FirstReturn(i))
            THEN \E a \in EventsOf("explain_risk", i) : log[a].model = smart_model
            ELSE Cardinality(EventsOf("explain_risk", i)) = 1

(* C5 as stated: in one run at most one request is made to the model client  *)
(* for a (title, price, risk level) triple, whatever the first request's      *)
(* outcome.                                                                   *)
C5_AtMostOneCall ==
    \A a, b \in AllEvents("api_call") : a # b => log[a].key # log[b].key

(* C5, amended: once a request for a (title, price, risk level) triple has   *)
(* returned a parsed answer, a result or an empty one, no further request is  *)
(* made for that triple in the run; a request that raised stores nothing and  *)
(* the next listing with the triple is requested again.                       *)
C5_NoCallAfterAnswer ==
    \A a, b \in AllEvents("api_call") :
        (a < b /\ log[a].ret # None) => log[a].key # log[b].key

\* an empty answer for one listing, then a second listing with the same triple
\* served from the cache without a request; and a raise followed by a new request
C5_Witness ==
    /\ Done
    /\ \E a \in AllEvents("api_call"), b \in AllEvents("explain_risk") :
          /\ a < b
          /\ log[a].ret = EmptyDict
          /\ log[b].key = log[a].key
          /\ log[b].idx # log[a].idx
          /\ EventsOf("api_call", log[b].idx) = {}
    /\ \E a, b \in AllEvents("api_call") :
          a < b /\ log[a].ret = None /\ log[a].key = log[b].key

(* C6: a selected listing whose explanation call raises or returns nothing   *)
(* falls back to the default explanation, alone: the other selected listings  *)
(* are still attempted and keep what their calls returned, and the run ends   *)
(* with every valid listing annotated, even when every call fails.            *)
C6_FailureIsolation ==
    /\ pc = "explain" => k <= Len(to_analyze)
    /\ (Done /\ enabled) =>
          /\ \A i \in Selected :
                /\ Cardinality(EventsOf("explain_risk", i)) = 1
                /\ IF Truthy(FirstReturn(i))
                   THEN products[i].fraud_analysis = FirstReturn(i)
                   ELSE HasDefault(i)
          /\ \A i \in ValidSet : "fraud_analysis" \in products[i].keys

\* a run with three or more selected listings in which every request raised
C6_Witness ==
    /\ Done
    /\ enabled
    /\ Len(to_analyze) >= 3
    /\ Cardinality(AllEvents("api_call")) = Len(to_analyze)
    /\ \A a \in AllEvents("api_call") : log[a].ret = None
    /\ \A i \in ValidSet : HasDefault(i)

(* C7: the risk score _calculate_risk returns lies in [0, 1] for every       *)
(* listing and cohort: no term is negative and the sum is clamped at 1.       *)
C7_ScoreBounded ==
    unit.op = "risk" => (0 <= unit.result.risk_score /\ unit.result.risk_score <= 100)

\* an untrusted, extremely cheap listing with a low rating, no reviews and a low
\* seller rating: the penalties add up to 1.10 and the score returned is 1
C7_Witness ==
    /\ unit.op = "risk"
    /\ unit.result.price_tier = "extremely_cheap"
    /\ ~IsTrusted(unit.product)
    /\ unit.product.rating = 25
    /\ unit.product.reviews = 0
    /\ unit.product.seller_rating = 25
    /\ Len(unit.result.risk_factors) = 4
    /\ unit.result.risk_score = 100

(* C8: the risk level stored on a scored listing is decided by its stored    *)
(* risk score alone: HIGH exactly when the score is at least 0.55, MEDIUM     *)
(* exactly when it is at least 0.25 and below 0.55, LOW exactly when it is    *)
(* below 0.25, in every state after scoring.                                  *)
C8_LevelFromScore ==
    \A i \in 1..Len(products) :
        Scored(i) =>
            /\ "risk_score" \in products[i].keys
            /\ products[i].risk_level = "HIGH" <=> products[i].risk_score >= 55
            /\ products[i].risk_level = "MEDIUM" <=>
                  (products[i].risk_score >= 25 /\ products[i].risk_score < 55)
            /\ products[i].risk_level = "LOW" <=> products[i].risk_score < 25

\* a finished run holding a listing scored exactly 0.55 (HIGH), one scored 0.45
\* (MEDIUM) and one scored 0.10 (LOW)
C8_Witness ==
    /\ Done
    /\ \E i \in LevelSet("HIGH") : products[i].risk_score = 55
    /\ \E i \in LevelSet("MEDIUM") : products[i].risk_score = 45
    /\ \E i \in LevelSet("LOW") : products[i].risk_score = 10

\* the positive prices of a cohort
Positive(cohort) == SelectSeq(cohort, LAMBDA x : x > 0)

(* C9: in a cohort with at least 3 positive prices a listing priced above 10 *)
(* times the cohort median is classified outlier_high, with percentile 100    *)
(* and is_outlier_high true, and never extremely_cheap, whatever its rank.    *)
C9_OutlierHigh ==
    (/\ unit.op = "tier"
     /\ Len(Positive(unit.cohort)) >= 3
     /\ 2 * unit.price > 10 * Median2(Positive(unit.cohort)))
        => /\ unit.result.tier = "outlier_high"
           /\ unit.result.percentile = 1000
           /\ unit.result.is_outlier_high
           /\ unit.result.tier # "extremely_cheap"

\* a listing at 60 in a cohort of median 5 that holds 60 itself more than once
C9_Witness ==
    /\ unit.op = "tier"
    /\ unit.price = 60
    /\ Len(Positive(unit.cohort)) >= 3
    /\ Median2(Positive(unit.cohort)) = 10
    /\ CountEqual(unit.cohort, 60) >= 2
    /\ CountEqual(unit.cohort, 0) >= 1
    /\ unit.result.tier = "outlier_high"

(* C10: the HIGH listings chosen for explanation are those with the highest  *)
(* risk scores: no HIGH listing left out has a strictly higher risk score     *)
(* than a chosen one.                                                         *)
C10_HighestFirst ==
    Done =>
        \A u \in LevelSet("HIGH") \ Selected, c \in LevelSet("HIGH") \cap Selected :
            products[u].risk_score <= products[c].risk_score

\* the listings of the batch the gate accepts, computed from the listings and the
\* query themselves
GateAccepts == {j \in 1..Len(products) : is_valid_product(products[j], query).is_valid}

\* the prices of the listings of S, in batch order
PricesOf(S) == LET order == InOrder(S) IN [j \in 1..Len(order) |-> products[order[j]].price]

RiskKeys ==
    {"risk_score", "risk_factors", "risk_level", "price_tier", "price_percentile",
     "fraud_analysis", "risk_explanation"}

(* C11: a listing the validity gate rejects never carries a risk score, risk  *)
(* level, price tier or fraud_analysis; a listing carries one only after      *)
(* every listing of the batch has been gated, and then its score, factors,    *)
(* level and price tier are those computed against the prices of exactly the  *)
(* listings the gate accepts, in no state of the run anything else.           *)
C11_GateBeforeScore ==
    LET accepts == GateAccepts
        cohort == PricesOf(accepts)
    IN
    \A i \in 1..Len(products) :
        /\ (products[i].keys \cap RiskKeys # {}) =>
              /\ \A j \in 1..Len(products) : "is_valid_product" \in products[j].keys
              /\ i \in accepts
              /\ LET r == _calculate_risk(products[i], cohort) IN
                 /\ products[i].risk_score = r.risk_score
                 /\ products[i].risk_factors = r.risk_factors
                 /\ products[i].risk_level = _get_risk_level(r.risk_score)
                 /\ products[i].price_tier = r.price_tier
                 /\ products[i].price_percentile = r.price_percentile
                 /\ ("price_tier" \in products[i].keys) <=> (Len(cohort) >= 5)
        /\ ("is_valid_product" \in products[i].keys /\ i \notin accepts) =>
              /\ products[i].keys = {"is_valid_product", "invalid_reason"}
              /\ ~products[i].is_valid_product

\* a finished run of five listings of which one was rejected: the four others
\* are scored against a cohort of four, too small for a price tier, although the
\* batch holds five prices
C11_Witness ==
    /\ Done
    /\ Len(products) = 5
    /\ Cardinality(GateAccepts) = 4
    /\ \A i \in GateAccepts : /\ "risk_score" \in products[i].keys
                              /\ "fraud_analysis" \in products[i].keys
                              /\ "price_tier" \notin products[i].keys
    /\ \E i \in 1..5 : /\ i \notin GateAccepts
                       /\ products[i].keys = {"is_valid_product", "invalid_reason"}

\* the listing's title and price fields have the types the gate expects
WellTyped(product) ==
    product.title_type \in {"str", "absent"} /\ product.price_type \in {"float", "absent"}

TitleRule(product) == product.title_type = "absent" \/ TextLen(product.title) < 5

PriceRule(product) == product.price_type = "absent" \/ product.price <= 0

SpamRule(product) == Cardinality({kw \in spam_keywords : Contains(product.title, kw)}) >= 2

ToyRule(product, q) ==
    ~_is_searching_for_toys(q) /\ _is_toy_product(product.title, product.price, q).is_toy

(* C12: for a listing whose title and price have the expected types the gate *)
(* reports the first rule that matches, in the order title (missing or under  *)
(* 5 characters), price (<= 0), spam (two or more distinct spam phrases), toy *)
(* detection; a listing that breaks several rules gets the reason of the      *)
(* earliest one, and a listing that breaks none is valid.                     *)
C12_FirstRuleWins ==
    (unit.op = "gate" /\ WellTyped(unit.product)) =>
        LET p == unit.product
            r == unit.result
        IN
        /\ r.raised = ""
        /\ IF TitleRule(p) THEN ~r.is_valid /\ r.reason = "Invalid or missing title"
           ELSE IF PriceRule(p) THEN ~r.is_valid /\ r.reason = "No valid price found"
           ELSE IF SpamRule(p)
           THEN ~r.is_valid /\ r.reason = "Contains multiple spam/scam keywords"
           ELSE IF ToyRule(p, unit.query)
           THEN /\ ~r.is_valid
                /\ r.reason = _is_toy_product(p.title, p.price, unit.query).reason
                /\ r.reason \notin {"", "Invalid or missing title", "No valid price found",
                                    "Contains multiple spam/scam keywords"}
           ELSE r.is_valid

\* a listing at price 0 whose title holds two spam phrases and a toy word: it
\* breaks the price, spam and toy rules and is rejected for its price
C12_Witness ==
    /\ unit.op = "gate"
    /\ unit.query = <<"car">>
    /\ unit.product.title = <<"act", "now", "buy", "now", "toy">>
    /\ unit.product.title_type = "str"
    /\ unit.product.price_type = "float"
    /\ unit.product.price = 0
    /\ SpamRule(unit.product) /\ ToyRule(unit.product, unit.query)
    /\ ~unit.result.is_valid
    /\ unit.result.reason = "No valid price found"

(* C13: when the query holds a toy search term, a listing with a title of at *)
(* least 5 characters, a positive price and fewer than 2 spam phrases is      *)
(* valid, whatever toy words or category toy patterns its title holds.        *)
C13_ToySearchKeepsToys ==
    (/\ unit.op = "gate"
     /\ WellTyped(unit.product)
     /\ _is_searching_for_toys(unit.query)
     /\ ~TitleRule(unit.product) /\ ~PriceRule(unit.product) /\ ~SpamRule(unit.product))
        => unit.result.is_valid /\ unit.result.raised = ""

\* query 'toy car' and the ride-on car for kids at 80: valid
C13_Witness ==
    /\ unit.op = "gate"
    /\ unit.query = <<"toy", "car">>
    /\ unit.product.title = <<"kids", "electric", "ride-on", "car", "12v">>
    /\ unit.product.title_type = "str"
    /\ unit.product.price_type = "float"
    /\ unit.product.price = 80
    /\ AnyIn(toy_indicators, unit.product.title)
    /\ AnyIn(toy_category_patterns("vehicle"), unit.product.title)
    /\ unit.result.is_valid

\* the title holds a general toy term, or a toy pattern of a category the query matches
ToyTitle(title, q) ==
    \/ AnyIn(toy_indicators, title)
    \/ \E c \in 1..Len(toy_categories) :
          /\ _query_matches_category(q, toy_categories[c])
          /\ AnyIn(toy_category_patterns(toy_categories[c]), title)

\* query 'car', title 'Kids Electric Ride-On Car 12V', price 80
RideOnScenario ==
    /\ unit.op = "gate"
    /\ unit.query = <<"car">>
    /\ unit.product.title = <<"kids", "electric", "ride-on", "car", "12v">>
    /\ unit.product.title_type = "str"
    /\ unit.product.price_type = "float"
    /\ unit.product.price = 80

\* the listing of a gate call passes the title, price and spam checks, for a
\* query that does not target toys
ReachesToyCheck ==
    /\ unit.op = "gate"
    /\ WellTyped(unit.product)
    /\ ~_is_searching_for_toys(unit.query)
    /\ ~TitleRule(unit.product) /\ ~PriceRule(unit.product) /\ ~SpamRule(unit.product)

(* C14 as stated: for a query that does not target toys a listing that passes *)
(* the title, price and spam checks is rejected whenever its title is a toy   *)
(* title, at any price; and query 'car' with 'Kids Electric Ride-On Car 12V'  *)
(* at 80 is rejected with the reason that names a toy vehicle.                *)
C14_ToyVehicleReason ==
    /\ (ReachesToyCheck /\ ToyTitle(unit.product.title, unit.query)) => ~unit.result.is_valid
    /\ RideOnScenario =>
          /\ ~unit.result.is_valid
          /\ unit.result.reason = "Product is a toy vehicle, not a real vehicle"

(* C14, amended: the rejection holds at any price; the reason is the one of   *)
(* the first toy rule that matches: the general one, 'Product is a toy        *)
(* (contains toy indicators)', whenever the title holds a general toy term,   *)
(* as 'kids' in the scenario, and the reason naming the category only when    *)
(* the title holds no general term.                                           *)
C14_ToyRejected ==
    /\ (ReachesToyCheck /\ ToyTitle(unit.product.title, unit.query)) =>
          /\ ~unit.result.is_valid
          /\ IF AnyIn(toy_indicators, unit.product.title)
             THEN unit.result.reason = "Product is a toy (contains toy indicators)"
             ELSE \E c \in 1..Len(toy_categories) :
                     /\ _query_matches_category(unit.query, toy_categories[c])
                     /\ unit.result.reason = "Product is a toy " \o toy_categories[c]
                                                \o ", not a real " \o toy_categories[c]
    /\ RideOnScenario =>
          /\ ~unit.result.is_valid
          /\ unit.result.reason = "Product is a toy (contains toy indicators)"

\* the scenario, rejected with the general reason although its title also holds
\* the vehicle patterns 'ride-on', '12v' and 'kids electric'
C14_Witness ==
    /\ RideOnScenario
    /\ AnyIn(toy_category_patterns("vehicle"), unit.product.title)
    /\ ~unit.result.is_valid
    /\ unit.result.reason = "Product is a toy (contains toy indicators)"

(* C15: analyze_products never raises on a listing whose title or price is    *)
(* absent, null or of the wrong type: the run goes past the gate for the      *)
(* whole batch and every such listing is marked invalid with a reason.        *)
C15_MalformedRejected ==
    /\ pc # "raised"
    /\ pc \notin {"idle", "step1"} =>
          \A i \in 1..Len(products) :
              (products[i].title_type # "str" \/ products[i].price_type # "float") =>
                  /\ "is_valid_product" \in products[i].keys
                  /\ ~products[i].is_valid_product
                  /\ products[i].invalid_reason # ""

(* C16: _classify_price_tier returns tier 'unknown' exactly when the cohort   *)
(* holds fewer than 3 positive prices, prices of 0 not being counted, and     *)
(* then with percentile 50 and is_outlier_high false, whatever the listing's  *)
(* price is, one far above every cohort price included.                       *)
C16_UnknownTier ==
    unit.op = "tier" =>
        /\ (unit.result.tier = "unknown") <=> (Len(Positive(unit.cohort)) < 3)
        /\ (Len(Positive(unit.cohort)) < 3) =>
              /\ unit.result.percentile = 500
              /\ ~unit.result.is_outlier_high

\* a cohort of four listings of which two have no price, and a listing at 60
\* against the two prices of 1: unknown, not outlier_high
C16_Witness ==
    /\ unit.op = "tier"
    /\ unit.price = 60
    /\ Len(unit.cohort) >= 4
    /\ CountEqual(unit.cohort, 0) >= 2
    /\ CountEqual(unit.cohort, 1) = 2
    /\ Len(Positive(unit.cohort)) = 2
    /\ unit.result.tier = "unknown"
    /\ unit.result.percentile = 500

\* the prices a listing is ranked against: the positive prices that are at most
\* 10 times their median, or all positive prices when fewer than 3 are left
RankedAgainst(cohort) ==
    LET prices == Positive(cohort)
        kept == SelectSeq(prices, LAMBDA x : 2 * x <= 10 * Median2(prices))
    IN  IF Len(kept) < 3 THEN prices ELSE kept

(* C17: for a listing that is not an outlier, in a cohort of at least 3       *)
(* positive prices, the tier follows from rank / n, the fraction of the       *)
(* outlier-filtered prices that are <= its price: extremely_cheap when        *)
(* 100 rank / n <= 10, budget when <= 25, mid when <= 75, premium when <= 90, *)
(* luxury above, the values 10, 25, 75 and 90 themselves falling in the lower *)
(* tier; the percentile returned is 100 rank / n to one decimal.              *)
C17_PercentileTiers ==
    (/\ unit.op = "tier"
     /\ Len(Positive(unit.cohort)) >= 3
     /\ 2 * unit.price <= 10 * Median2(Positive(unit.cohort)))
        => LET n == Len(RankedAgainst(unit.cohort))
               rank == Cardinality({i \in 1..n : RankedAgainst(unit.cohort)[i] <= unit.price})
               exact == 1000 * rank
               given == unit.result.percentile * n
           IN
           /\ ~unit.result.is_outlier_high
           /\ 2 * (given - exact) <= n /\ 2 * (exact - given) <= n
           /\ unit.result.tier = "extremely_cheap" <=> 100 * rank <= 10 * n
           /\ unit.result.tier = "budget" <=> (10 * n < 100 * rank /\ 100 * rank <= 25 * n)
           /\ unit.result.tier = "mid" <=> (25 * n < 100 * rank /\ 100 * rank <= 75 * n)
           /\ unit.result.tier = "premium" <=> (75 * n < 100 * rank /\ 100 * rank <= 90 * n)
           /\ unit.result.tier = "luxury" <=> 90 * n < 100 * rank

\* prices 1, 5, 5, 5 and an outlier at 60 that is filtered out: the listing at 1
\* is at percentile 25 exactly, and budget
C17_Witness ==
    /\ unit.op = "tier"
    /\ unit.price = 1
    /\ unit.cohort = <<1, 5, 5, 5, 60>>
    /\ RankedAgainst(unit.cohort) = <<1, 5, 5, 5>>
    /\ unit.result.percentile = 250
    /\ unit.result.tier = "budget"

\* listing i ended the run without a usable answer of explain_risk
Defaulted(i) == i \in ValidSet /\ AcceptedFor(i) = {}

(* C18: the explanation of a listing that got no generated one is made of its *)
(* own annotations only: scam_probability is its risk score; LOW gives 'SAFE  *)
(* TO BUY' and no red flag, even when the listing has risk factors; MEDIUM    *)
(* gives 'PROCEED WITH CAUTION' and HIGH gives 'AVOID', both with the         *)
(* listing's own risk factors, in their order, as red flags.                  *)
C18_DefaultFromOwnRisk ==
    Done =>
        \A i \in 1..Len(products) :
            Defaulted(i) =>
                LET a == products[i].fraud_analysis
                    level == products[i].risk_level
                IN
                /\ "fraud_analysis" \in products[i].keys
                /\ a.kind = "dict"
                /\ a.scam_probability = products[i].risk_score
                /\ level \in {"LOW", "MEDIUM", "HIGH"}
                /\ level = "LOW" =>
                      /\ a.recommendation = "SAFE TO BUY"
                      /\ a.red_flags = <<>>
                /\ level = "MEDIUM" =>
                      /\ a.recommendation = "PROCEED WITH CAUTION"
                      /\ a.red_flags = products[i].risk_factors
                /\ level = "HIGH" =>
                      /\ a.recommendation = "AVOID"
                      /\ a.red_flags = products[i].risk_factors

\* a finished run with a defaulted listing of each level: the LOW one has a risk
\* factor and no red flag, the MEDIUM and the HIGH ones have different factors
C18_Witness ==
    /\ Done
    /\ \E l \in LevelSet("LOW"), m \in LevelSet("MEDIUM"), h \in LevelSet("HIGH") :
          /\ Defaulted(l) /\ Defaulted(m) /\ Defaulted(h)
          /\ products[l].risk_factors # <<>>
          /\ products[l].fraud_analysis.red_flags = <<>>
          /\ products[m].risk_factors # products[h].risk_factors
          /\ products[m].fraud_analysis.red_flags = products[m].risk_factors
          /\ products[h].fraud_analysis.red_flags = products[h].risk_factors
          /\ Len(products[h].risk_factors) = 3

(* C19: for a cohort the classifier ranks against (3 positive prices or more) *)
(* every field of the price statistics is taken over the classifier's         *)
(* filtered prices: count is their number, min and max their extremes, sum    *)
(* and median theirs, range max - min.                                        *)
C19_StatsOverFilteredSet ==
    (unit.op = "stats" /\ unit.tier_prices # <<>>) =>
        LET f == unit.tier_prices
            r == unit.result
        IN
        /\ ~r.empty
        /\ r.count = Len(f)
        /\ r.n = Len(f)
        /\ r.min = MinOf(f)
        /\ r.max = MaxOf(f)
        /\ r.sum = SumSeq(f)
        /\ r.median2 = Median2(f)
        /\ r.range = MaxOf(f) - MinOf(f)

\* the listings of a recommendation call that carry the given risk level
RecLevel(level) ==
    {i \in 1..Len(unit.products) :
        "risk_level" \in unit.products[i].keys /\ unit.products[i].risk_level = level}

(* C20: get_smart_recommendations holds a best deal exactly when a LOW        *)
(* listing exists, and it is then the first listing in batch order among the  *)
(* LOW listings of minimal price, never a HIGH, MEDIUM or rejected listing    *)
(* however cheap; it holds the caution count exactly when a MEDIUM listing    *)
(* exists, equal to their number.                                             *)
C20_BestDeal ==
    unit.op = "rec" =>
        LET ps == unit.products
            r == unit.result
            low == RecLevel("LOW")
            medium == RecLevel("MEDIUM")
        IN
        /\ ("best_deal" \in r.keys) <=> (low # {})
        /\ low # {} =>
              \E b \in low :
                  /\ \A j \in low : ps[b].price <= ps[j].price
                  /\ \A j \in low : j < b => ps[j].price > ps[b].price
                  /\ r.best_deal.title = ps[b].title
                  /\ r.best_deal.price = ps[b].price
                  /\ r.best_deal.link = ps[b].link
        /\ ("proceed_with_caution" \in r.keys) <=> (medium # {})
        /\ medium # {} => r.proceed_with_caution = Cardinality(medium)

\* a HIGH listing at 5, a LOW one at 30, then two LOW ones at 20: the best deal
\* is the first of the two at 20, and there is no caution count
C20_Witness ==
    /\ unit.op = "rec"
    /\ Len(unit.products) = 4
    /\ unit.products[1].risk_level = "HIGH" /\ unit.products[1].price = 5
    /\ unit.products[2].risk_level = "LOW" /\ unit.products[2].price = 30
    /\ unit.products[3].risk_level = "LOW" /\ unit.products[3].price = 20
    /\ unit.products[4].risk_level = "LOW" /\ unit.products[4].price = 20
    /\ unit.products[3].link # unit.products[4].link
    /\ unit.result.keys = {"best_deal"}
    /\ unit.result.best_deal.link = unit.products[3].link


\* C21: a finished run with fewer than five valid listings leaves every valid
\* listing with the price-tier annotation present and equal to 'unknown'
C21_ExplicitUnknownTier ==
    (Done /\ Cardinality(ValidSet) < 5) =>
        \A i \in ValidSet : /\ "price_tier" \in products[i].keys
                            /\ products[i].price_tier = "unknown"


-----------------------------------------------------------------------------
(* batch_explain called on a list of scored listings *)

MaxExplainBatch == 2

\* a valid listing as step 2 leaves it, with the given risk score
Banded(listing, score) ==
    WithRisk(listing, [risk_score |-> score, risk_factors |-> <<>>])

\* two HIGH listings, a MEDIUM one and a LOW one
ExplainListings ==
    { Banded(Listing(<<"used", "car">>, 30, 25, 3, <<"acme">>, 25, "google_shopping"), 80),
      Banded(Listing(<<"used", "car">>, 20, 25, 3, <<"acme">>, 25, "google_shopping"), 70),
      Banded(Listing(<<"used", "car">>, 20, 25, 10, <<"acme">>, 25, "google_shopping"), 45),
      Banded(Listing(<<"kids", "car">>, 25, 45, 10, <<"walmart">>, 45, "google_shopping"), 10) }

ExplainBatches == UNION {[1..n -> ExplainListings] : n \in 1..MaxExplainBatch}

\* risky_products, as positions of the list
risky_products(ps) ==
    InOrder({i \in 1..Len(ps) : Get(ps[i], "risk_level", "") \in {"HIGH", "MEDIUM"}})

InitBatch ==
    /\ enabled \in BOOLEAN
    /\ cache = [x \in {} |-> None]
    /\ pc = "batch_idle"
    /\ query = <<>>
    /\ products = <<>>
    /\ to_analyze = <<>>
    /\ price_stats = NoStats
    /\ k = 1
    /\ log = <<>>
    /\ unit = NoUnit

\* batch_explain(products) is called: it returns at once when the capability is
\* disabled, and otherwise loops over the HIGH and MEDIUM listings in list order
BatchCall(batch) ==
    /\ pc = "batch_idle"
    /\ products' = batch
    /\ to_analyze' = IF enabled THEN risky_products(batch) ELSE <<>>
    /\ pc' = IF enabled /\ risky_products(batch) # <<>> THEN "batch_first" ELSE "batch_done"
    /\ UNCHANGED <<enabled, cache, query, price_stats, k, log, unit>>

\* the position after the iteration for to_analyze[k]
BatchAdvance ==
    /\ k' = k + 1
    /\ pc' = IF k < Len(to_analyze) THEN "batch_first" ELSE "batch_done"

\* the first pass of one iteration: explain_risk with the fast model, the
\* annotation when the result is truthy, and the test for the second pass
BatchFirst ==
    /\ pc = "batch_first"
    /\ \E outcome \in ApiOutcomes :
          LET i == to_analyze[k]
              p == products[i]
              risk_level == Get(p, "risk_level", "")
              r == explain_risk(enabled, cache, p, risk_level, FALSE, outcome)
              analysis == r.ret
          IN
          /\ (Len(r.events) < 2) => outcome.raised
          /\ cache' = r.cache
          /\ log' = log \o <<Event("explain_risk", i, _get_cache_key(p, risk_level), fast_model, r.ret)>>
                        \o [j \in 1..Len(r.events) |-> [r.events[j] EXCEPT !.idx = i]]
          /\ products' =
                IF Truthy(analysis)
                THEN [products EXCEPT
                        ![i].fraud_analysis = analysis,
                        ![i].risk_explanation = analysis.reasoning,
                        ![i].keys = @ \cup {"fraud_analysis", "risk_explanation"}]
                ELSE products
          /\ IF Uncertain(analysis) /\ risk_level = "HIGH"
             THEN pc' = "batch_smart" /\ k' = k
             ELSE BatchAdvance
    /\ UNCHANGED <<enabled, query, to_analyze, price_stats, unit>>

\* the second pass: explain_risk with use_smart_model=True for the same listing
\* and risk level, its truthy result replacing the first one
BatchSmart ==
    /\ pc = "batch_smart"
    /\ \E outcome \in ApiOutcomes :
          LET i == to_analyze[k]
              p == products[i]
              risk_level == Get(p, "risk_level", "")
              r == explain_risk(enabled, cache, p, risk_level, TRUE, outcome)
              smart_analysis == r.ret
          IN
          /\ (Len(r.events) < 2) => outcome.raised
          /\ cache' = r.cache
          /\ log' = log \o <<Event("explain_risk", i, _get_cache_key(p, risk_level), smart_model, r.ret)>>
                        \o [j \in 1..Len(r.events) |-> [r.events[j] EXCEPT !.idx = i]]
          /\ products' =
                IF Truthy(smart_analysis)
                THEN [products EXCEPT
                        ![i].fraud_analysis = smart_analysis,
                        ![i].risk_explanation = smart_analysis.reasoning,
                        ![i].keys = @ \cup {"fraud_analysis", "risk_explanation"}]
                ELSE products
    /\ BatchAdvance
    /\ UNCHANGED <<enabled, query, to_analyze, price_stats, unit>>

NextBatch ==
    \/ \E batch \in ExplainBatches : BatchCall(batch)
    \/ BatchFirst
    \/ BatchSmart

SpecBatch == InitBatch /\ [][NextBatch]_vars

\* the invocations of explain_risk that asked for the strong model
SmartInvocations == {a \in AllEvents("explain_risk") : log[a].model = smart_model}

\* the requests made to the client for listing i after log position a
RequestsAfter(a, i) == {b \in EventsOf("api_call", i) : b > a}

\* C22: in batch_explain every follow-up explain_risk call with the strong
\* model sends a request to the strong model, and once the list is processed
\* an escalated listing whose follow-up succeeded carries the strong model's
\* answer
C22_EscalationReachesStrongModel ==
    \A a \in SmartInvocations :
        /\ \E b \in RequestsAfter(a, log[a].idx) : log[b].model = smart_model
        /\ (pc = "batch_done" /\ Truthy(log[a].ret)) =>
              \E b \in RequestsAfter(a, log[a].idx) :
                  products[log[a].idx].fraud_analysis = log[b].ret


\* the risk level of the listing an invocation of explain_risk was made for
CallLevel(a) == products[log[a].idx].risk_level

\* the invocation of explain_risk during which log entry e was made
CallOf(e) ==
    CHOOSE a \in AllEvents("explain_risk") :
        a <= e /\ \A b \in AllEvents("explain_risk") : b <= e => b <= a

\* C23: in a run the explanation calls are made one after another, at most one
\* per selected listing, those for HIGH listings before those for MEDIUM ones
\* and in batch order within a band, and none before every valid listing is
\* scored and banded
C23_CallOrder ==
    LET calls == AllEvents("explain_risk") IN
    /\ \A a \in calls :
          /\ log[a].idx \in Selected
          /\ \A i \in ValidSet : Scored(i)
          /\ \A b \in calls :
                a < b =>
                   /\ log[a].idx # log[b].idx
                   /\ ~(CallLevel(a) = "MEDIUM" /\ CallLevel(b) = "HIGH")
                   /\ (CallLevel(a) = CallLevel(b)) => log[a].idx < log[b].idx
    /\ \A e \in 1..Len(log) :
          /\ \E a \in calls : a <= e
          /\ log[e].idx = log[CallOf(e)].idx

\* a finished run in which a MEDIUM listing stands before a HIGH one in the
\* batch, both were explained, and the HIGH one was explained first
C23_Witness ==
    /\ Done
    /\ \E a, b \in AllEvents("explain_risk") :
          /\ a < b
          /\ CallLevel(a) = "HIGH" /\ CallLevel(b) = "MEDIUM"
          /\ log[b].idx < log[a].idx
    /\ Cardinality(LevelSet("HIGH")) >= 2
    /\ \E e \in AllEvents("api_call") : TRUE


\* the same listing sold by a seller that is no major retailer
Untrusted(product) ==
    [product EXCEPT !.seller_name = <<"acme">>, !.source = <<"acme">>]

\* LOW < MEDIUM < HIGH
LevelRank(level) == CASE level = "LOW" -> 0 [] level = "MEDIUM" -> 1 [] level = "HIGH" -> 2

\* C24: a listing sold by a major retailer never scores higher, and is never
\* banded higher, than the listing that differs from it only by an unknown
\* seller, scored against the same cohort
C24_TrustDampens ==
    (unit.op = "risk" /\ unit.product.seller_name = <<"walmart">>) =>
        LET other == _calculate_risk(Untrusted(unit.product), unit.cohort) IN
        /\ unit.result.risk_score <= other.risk_score
        /\ LevelRank(unit.level) <= LevelRank(_get_risk_level(other.risk_score))

\* an extremely cheap Google Shopping listing of a major retailer with no rating
\* and no reviews is LOW at 0.20, where the unknown seller's is HIGH at 0.80
C24_Witness ==
    /\ unit.op = "risk"
    /\ unit.product.seller_name = <<"walmart">>
    /\ unit.product.platform = "google_shopping"
    /\ unit.product.rating = 0 /\ unit.product.reviews = 0
    /\ unit.result.price_tier = "extremely_cheap"
    /\ unit.result.risk_score = 20 /\ unit.level = "LOW"
    /\ _calculate_risk(Untrusted(unit.product), unit.cohort).risk_score = 80


\* the keys analyze_products may add to a listing
AnnotationKeys ==
    {"is_valid_product", "invalid_reason", "risk_score", "risk_factors", "risk_level",
     "price_tier", "price_percentile", "fraud_analysis", "risk_explanation"}

\* the fields a scraper fills
ListingFields ==
    {"title_type", "title", "price_type", "price", "rating", "reviews",
     "seller_name", "seller_rating", "source", "platform", "link"}

\* listing i keeps its fields and the annotations it has over the step, and the
\* step only adds annotations
KeepsWritten(i) ==
    /\ products[i].keys \subseteq products'[i].keys
    /\ products'[i].keys \subseteq AnnotationKeys
    /\ \A f \in ListingFields : products'[i][f] = products[i][f]
    /\ \A f \in products[i].keys : products'[i][f] = products[i][f]

\* C25: during a run every step leaves each listing's fields as they are and
\* each annotation already written with the value it was given
C25_WriteOnce ==
    [][ pc # "idle" =>
          /\ Len(products') = Len(products)
          /\ \A i \in 1..Len(products) : KeepsWritten(i) ]_vars

\* a finished run in which a listing's fraud_analysis is the explanation step 3
\* gave it, step 4 having written the default of another valid listing only
C25_Witness ==
    /\ Done
    /\ \E i, j \in ValidSet :
          /\ i \in Invoked /\ Truthy(FirstReturn(i))
          /\ products[i].fraud_analysis = FirstReturn(i)
          /\ products[i].fraud_analysis # _get_default_analysis(products[i])
          /\ j \notin Invoked
          /\ products[j].fraud_analysis = _get_default_analysis(products[j])


\* the texts of the factors _calculate_risk returned
FactorTexts(r) == {r.risk_factors[j].text : j \in 1..Len(r.risk_factors)}

\* C26: a scored listing with a positive risk score has at least one risk
\* factor, a rating of 0 always gives the 'no rating' factor and a review count
\* of 0 always gives the 'very few reviews' factor, trusted seller or not
C26_PenaltyHasFactor ==
    unit.op = "risk" =>
        /\ unit.result.risk_score > 0 => unit.result.risk_factors # <<>>
        /\ unit.product.rating = 0 => "No rating available" \in FactorTexts(unit.result)
        /\ unit.product.reviews = 0 => "Very few reviews (0)" \in FactorTexts(unit.result)


-----------------------------------------------------------------------------
(* explain_risk and clear_cache called one after another on one explainer *)

MaxCalls == 3

\* scored listings explain_risk is called for: two whose titles and prices differ
\* and whose key texts are both 'item 199.0HIGH', one with the title, price and
\* level of the first but another rating and review count, and one with the
\* title and price of the first at another risk level
CacheListings ==
    { Banded(Listing(<<"item", "1">>, 99, 25, 3, <<"acme">>, 25, "google_shopping"), 80),
      Banded(Listing(<<"item", "19">>, 9, 25, 3, <<"acme">>, 25, "google_shopping"), 80),
      Banded(Listing(<<"item", "1">>, 99, 45, 10, <<"acme">>, 45, "google_shopping"), 80),
      Banded(Listing(<<"item", "1">>, 99, 25, 3, <<"acme">>, 25, "google_shopping"), 40) }

\* the client raises, or answers with a result
CacheOutcomes == {o \in ApiOutcomes : o.answer # EmptyDict}

InitCache ==
    /\ enabled \in BOOLEAN
    /\ cache = [x \in {} |-> None]
    /\ pc = "serving"
    /\ query = <<>>
    /\ products = <<>>
    /\ to_analyze = <<>>
    /\ price_stats = NoStats
    /\ k = 1
    /\ log = <<>>
    /\ unit = NoUnit

\* the k-th call on the explainer is explain_risk(product, product's risk level,
\* ..., use_smart_model); the listing is kept as products[k]
ExplainCall(product, use_smart_model) ==
    /\ pc = "serving"
    /\ k <= MaxCalls
    /\ \E outcome \in CacheOutcomes :
          LET r == explain_risk(enabled, cache, product, product.risk_level,
                                use_smart_model, outcome)
          IN
          /\ (Len(r.events) < 2) => outcome.raised
          /\ cache' = r.cache
          /\ log' = log \o <<Event("explain_risk", k, _get_cache_key(product, product.risk_level),
                                   IF use_smart_model THEN smart_model ELSE fast_model, r.ret)>>
                        \o [j \in 1..Len(r.events) |-> [r.events[j] EXCEPT !.idx = k]]
    /\ products' = Append(products, product)
    /\ k' = k + 1
    /\ UNCHANGED <<enabled, pc, query, to_analyze, price_stats, unit>>

\* the k-th call on the explainer is clear_cache()
ClearCache ==
    /\ pc = "serving"
    /\ k <= MaxCalls
    /\ cache' = [x \in {} |-> None]
    /\ log' = Append(log, Event("clear_cache", k, <<>>, "", None))
    /\ products' = Append(products, Listing(<<>>, 0, 0, 0, <<>>, 0, ""))
    /\ k' = k + 1
    /\ UNCHANGED <<enabled, pc, query, to_analyze, price_stats, unit>>

NextCache ==
    \/ \E product \in CacheListings, use_smart_model \in BOOLEAN :
          ExplainCall(product, use_smart_model)
    \/ ClearCache

SpecCache == InitCache /\ [][NextCache]_vars

\* the title, price and risk level an invocation of explain_risk was made with
Triple(a) ==
    <<products[log[a].idx].title, products[log[a].idx].price, products[log[a].idx].risk_level>>

\* C27: two explain_risk calls look the cache up under the same key only when
\* they are made with the same title, the same price and the same risk level
C27_KeyInjective ==
    \A a, b \in AllEvents("cache_read") :
        log[a].key = log[b].key => Triple(a) = Triple(b)


\* C28: a listing whose price is one of its cohort's positive prices has a
\* percentile above 0, and in a cohort of 5 to 9 listings its percentile is
\* above 10 and its tier is not extremely_cheap
C28_MemberAboveCheapest ==
    (/\ unit.op = "tier"
     /\ unit.price > 0
     /\ \E j \in 1..Len(unit.cohort) : unit.cohort[j] = unit.price) =>
        /\ unit.result.percentile > 0
        /\ (5 <= Len(unit.cohort) /\ Len(unit.cohort) <= 9) =>
              /\ unit.result.percentile > 100
              /\ unit.result.tier # "extremely_cheap"

\* nine listings, one at 1 and eight at 5: the cheapest is at percentile 11.1,
\* and budget
C28_Witness ==
    /\ unit.op = "tier"
    /\ unit.price = 1
    /\ unit.cohort = <<1, 5, 5, 5, 5, 5, 5, 5, 5>>
    /\ unit.result.percentile = 111
    /\ unit.result.tier = "budget"


\* the position of the last clear_cache before log position a, 0 when there is none
LastClear(a) ==
    LET clears == {c \in AllEvents("clear_cache") : c < a} IN
    IF clears = {} THEN 0 ELSE CHOOSE c \in clears : \A d \in clears : d <= c

\* the stores under key made before position a and since the last clear_cache
StoredBefore(a, key) ==
    {w \in AllEvents("cache_write") : w < a /\ w > LastClear(a) /\ log[w].key = key}

\* the stores made since the last clear_cache
StoredSinceClear == {w \in AllEvents("cache_write") : w > LastClear(Len(log) + 1)}

=============================================================================
